---- MODULE Spec2Model ----
(***************************************************************************)
(* Verification model of the famafrench portfolio-sort engine              *)
(* (src/famafrench/famafrench.py, src/famafrench/utils.py).                *)
(*                                                                         *)
(* Several specifications share the variables of this module:             *)
(*   SpecSort    : one June cross-section of firms is sorted into buckets  *)
(*                 and aggregated (get_nyse_characs, getPortfolioBins,     *)
(*                 _getNyseThresholds, getPortfolioReturns).               *)
(*   Spec        : the engine's run-control state across requests          *)
(*                 (runFactorReg, the lru caches of mergeCCM / getMEJune,  *)
(*                 the panels kept as instance attributes, the pickled     *)
(*                 files).                                                 *)
(*   SpecComp    : queryComp on a small Compustat panel.                   *)
(*   SpecAgg     : getPortfolios on one cross-section with returns,        *)
(*                 weights and Compustat history (create_pivot_table,      *)
(*                 grouped_vwAvg).                                         *)
(*   SpecCCM     : mergeCCM, the formation panel of Compustat and CRSP.    *)
(*   SpecLag     : getMEJune's lag of the variance characteristics.        *)
(*   SpecConfig  : Spec extended by requests with a frequency or a         *)
(*                 dimension the engine does not support.                  *)
(*   SpecFactors : the sorts getFFfactors asks for.                        *)
(*   SpecAnnual  : the annual observations of getPortfolioReturns.         *)
(*   SpecCompose : the factor returns getFFfactors composes from the       *)
(*                 sorted portfolios.                                      *)
(*   SpecFiles   : the local files of queryCrsp and getCrspDailyRollVar.   *)
(*   SpecIdList  : the factor list passed to getNyseThresholdsAndRet.      *)
(*   SpecPortFactors : the tables of getPortfolios for the factors.        *)
(*   SpecReg     : the securities the rolling regressions estimate.        *)
(* The specifications of single operations keep their input in args and    *)
(* the value returned in result.                                           *)
(***************************************************************************)
EXTENDS Integers, Sequences, FiniteSets, TLC

VARIABLES
    \* ---- data level (SpecSort) ----
    panel,          \* dfccm_june: one row per firm for one formation date
    sortCharacsId,  \* constructor argument: list of sort characteristics
    sortResult,     \* outcome of the last getPortfolioReturns call
    \* ---- engine level (Spec) ----
    runEstimation,  \* self.runEstimation (force re-estimation)
    runFactorReg,   \* self.runFactorReg, the run-once flag
    memoMergeCCM,   \* keys (freq, dt_start, dt_end) held by mergeCCM's lru cache
    memoMEJune,     \* keys held by getMEJune's lru cache
    memoFactorReg,  \* keys held by getFactorRegResults' lru cache
    dfcrsp3,        \* self.dfcrsp3: what the alignment panel was built for
    dfccm_june,     \* self.dfccm_june: what the formation panel was built for
    files,          \* pickled files: the date range each one covers, or None
    lastReq,        \* outcome of the last request on the engine
    nReq,           \* number of requests issued so far
    callerSet,      \* "never" / "pending" / "used": the caller's writes to runFactorReg
    \* ---- function level (SpecComp and the other function specifications) ----
    args,           \* the data frames and arguments a function is applied to
    result          \* what the function returned, NoValue before the call

sortVars == <<panel, sortCharacsId, sortResult>>
engVars  == <<runEstimation, runFactorReg, memoMergeCCM, memoMEJune,
              memoFactorReg, dfcrsp3, dfccm_june, files, lastReq, nReq, callerSet>>
vars     == <<panel, sortCharacsId, sortResult, runEstimation,
              runFactorReg, memoMergeCCM, memoMEJune, memoFactorReg, dfcrsp3,
              dfccm_june, files, lastReq, nReq, callerSet, args, result>>
fnVars   == <<args, result>>
NoArgs == [fn |-> "none"]
NoValue == [fn |-> "none"]

(***************************************************************************)
(* Bounds of the model.                                                    *)
(***************************************************************************)
NumFirms == 2
MaxVal == 2

Firms == 1..NumFirms
NaN == -1
Vals == 1..MaxVal
ValsOrNaN == Vals \cup {NaN}

(***************************************************************************)
(* Floating point comparisons: every comparison with NaN is False.         *)
(***************************************************************************)
IsNull(x) == x = NaN
Gt0(x) == IF IsNull(x) THEN FALSE ELSE x > 0

(***************************************************************************)
(* Percentile grid of a k-way split (k >= 4):                              *)
(*   ptiles = list(np.around(np.arange(0, 1, round(1/k, 2)), 2))[1:]       *)
(* All quantities are in hundredths.                                       *)
(***************************************************************************)
\* round(1/k, 2) in hundredths: round-half-to-even of 100/k (1/8 = 0.125 is
\* exact in binary, so the tie goes to the even neighbour 0.12).
StepPct(k) ==
    LET q == 100 \div k
        r == 100 % k
    IN  IF 2 * r < k THEN q
        ELSE IF 2 * r > k THEN q + 1
        ELSE IF q % 2 = 0 THEN q ELSE q + 1

\* len(np.arange(0, 1, step)) = ceil(1 / step)
ArangeLen(k) == (100 + StepPct(k) - 1) \div StepPct(k)

\* ptiles: the grid without its first element 0, as percentages
Ptiles(k) == [i \in 1..(ArangeLen(k) - 1) |-> i * StepPct(k)]

\* int(p*100) truncates; for these p the double product p*100 lies just
\* below the integer (0.29*100 = 28.999999999999996, 0.57*100, 0.58*100).
TruncatedPct == {29, 57, 58}
IntPct(p) == IF p \in TruncatedPct THEN p - 1 ELSE p

\* p_cols of getPortfolioBins: the column suffix used for every grid point
PCols(k) == [i \in 1..Len(Ptiles(k)) |-> IntPct(Ptiles(k)[i])]

\* bucket counts get_nyse_characs accepts, and those getPortfolioBins accepts
NyseCharacsDims == {2, 3, 4, 5, 6, 8, 10, 20, 25, 50, 100}
PortfolioBinsDims == {2, 3, 4, 5, 6, 8, 10, 20, 25, 100}

\* breakpoint columns get_nyse_characs returns for a k-way split; describe()
\* always reports the median next to the requested percentiles
BreakCols(k) ==
    IF k = 2 THEN {50}
    ELSE IF k = 3 THEN {30, 70}
    ELSE {Ptiles(k)[i] : i \in 1..Len(Ptiles(k))} \cup {50}


(***************************************************************************)
(* Rows of the formation panel dfccm_june (one formation date).            *)
(***************************************************************************)
\* A row as mergeCCM leaves it.  Revenue and cost items are reported.  Book
\* equity is missing unless positive (queryComp); bm and op are missing when
\* book equity is; a missing op next to a positive be is an outlier that
\* queryComp set to missing (op > 99th percentile); a missing bm next to a
\* positive be is a firm without a December market value.
Row(f, nyse, me, be, bm, op) ==
    [permno |-> f, exchcd |-> IF nyse THEN 1 ELSE 3, shrcd |-> 10, count |-> 2,
     me |-> me, be |-> be, bm |-> bm, op |-> op,
     revt |-> 1, xp_allnan |-> FALSE, retadj |-> f, port_weight |-> me]

Range(s) == {s[i] : i \in DOMAIN s}

\* the value tuples <<nyse, me, be, bm, op>> a row can carry on an instance
\* constructed with the characteristics fidList: mergeCCM only builds the
\* columns of the characteristics asked for
RowVals(fidList) ==
    {t \in BOOLEAN \X Vals \X {NaN, 1} \X ValsOrNaN \X ValsOrNaN :
        /\ t[3] = NaN => (t[4] = NaN /\ t[5] = NaN)
        /\ "BM" \notin Range(fidList) => t[4] = NaN
        /\ "OP" \notin Range(fidList) => t[5] = NaN
        /\ Range(fidList) \cap {"BM", "OP"} = {} => t[3] = NaN}

\* total order on the value tuples, used to list every cross-section once
\* (the order of the rows of a panel is immaterial)
RowRank(t) ==
    LET v(x) == IF x = NaN THEN 0 ELSE x
    IN  ((((IF t[1] THEN 1 ELSE 0) * (MaxVal + 1) + t[2]) * 2 + v(t[3])) * (MaxVal + 1)
            + v(t[4])) * (MaxVal + 1) + v(t[5])

Panels(fidList) ==
    {[f \in Firms |-> Row(f, t[f][1], t[f][2], t[f][3], t[f][4], t[f][5])] :
        t \in {u \in [Firms -> RowVals(fidList)] :
                  \A f \in Firms : f + 1 \in Firms => RowRank(u[f]) <= RowRank(u[f + 1])}}

Col(c) == IF c = "ME" THEN "me" ELSE IF c = "BM" THEN "bm" ELSE "op"

\* Common Boolean Conditions of _getNyseThresholds
sBool1(r) == r.exchcd = 1 /\ r.shrcd \in {10, 11}
sBool2(r) == r.count >= 2 /\ Gt0(r.me)

\* df1['sBool']: the reference (NYSE) universe for the breakpoints
NyseBool(r, fidList) ==
    /\ "ME" \in Range(fidList) => sBool1(r) /\ sBool2(r)
    /\ "BM" \in Range(fidList) =>
          sBool1(r) /\ sBool2(r) /\ Gt0(r.be) /\ ~IsNull(r.bm)
    /\ "OP" \in Range(fidList) =>
          sBool1(r) /\ sBool2(r) /\ Gt0(r.be) /\ ~IsNull(r.revt) /\ ~r.xp_allnan

\* df2['sBool']: the validity predicate of the sorted characteristics
ValidBool(r, fidList) ==
    /\ "ME" \in Range(fidList) => Gt0(r.me)
    /\ "BM" \in Range(fidList) => Gt0(r.me) /\ Gt0(r.be) /\ ~IsNull(r.bm)
    /\ "OP" \in Range(fidList) =>
          Gt0(r.me) /\ Gt0(r.be) /\ ~IsNull(r.revt) /\ ~r.xp_allnan


\* ffcharac_list: built by a fixed chain of `if c in fidList` tests
FfcharacList(fidList) ==
    (IF "ME" \in Range(fidList) THEN <<"me">> ELSE <<>>)
    \o (IF "BM" \in Range(fidList) THEN <<"bm">> ELSE <<>>)
    \o (IF "OP" \in Range(fidList) THEN <<"op">> ELSE <<>>)

(***************************************************************************)
(* get_nyse_characs: percentiles of the reference universe, by linear      *)
(* interpolation between order statistics.  Breakpoints are kept times 100.*)
(***************************************************************************)
RECURSIVE ValueSeq(_, _, _)
ValueSeq(p, S, c) ==
    IF S = {} THEN <<>>
    ELSE LET f == CHOOSE x \in S : \A y \in S : x <= y
         IN  (IF IsNull(p[f][c]) THEN <<>> ELSE <<p[f][c]>>) \o ValueSeq(p, S \ {f}, c)

NyseValues(p, fidList, c) ==
    SortSeq(ValueSeq(p, {f \in Firms : NyseBool(p[f], fidList)}, c),
            LAMBDA a, b : a < b)

\* 100 * (pct-th percentile) of a sorted list, NaN for an empty list
Percentile100(v, pct) ==
    IF Len(v) = 0 THEN NaN
    ELSE LET h == (Len(v) - 1) * pct
             lo == h \div 100
             rem == h % 100
         IN  IF rem = 0 THEN 100 * v[lo + 1]
             ELSE 100 * v[lo + 1] + rem * (v[lo + 2] - v[lo + 1])

\* the breakpoint columns of one characteristic: column suffix -> value
NyseCharac(p, fidList, c, k) ==
    LET v == NyseValues(p, fidList, c)
    IN  [pct \in BreakCols(k) |-> Percentile100(v, pct)]

(***************************************************************************)
(* getPortfolioBins                                                        *)
(***************************************************************************)
NonNegDomain == {"me", "be", "bm", "dp", "ni", "var", "resvar"}

\* df['lbound'] < df[id_col]
AboveLbound(c, x) == IF c \in NonNegDomain THEN Gt0(x) ELSE ~IsNull(x)
\* df[id_col] <= df[id_col + '_' + pct]
LeBreak(x, b) == ~IsNull(x) /\ ~IsNull(b) /\ 100 * x <= b
\* df[id_col + '_' + pct] < df[id_col]
GtBreak(x, b) == ~IsNull(x) /\ ~IsNull(b) /\ b < 100 * x

\* the list of (condition, label) pairs handed to np.select
BinConds(c, x, sb, k, br) ==
    IF k = 2 THEN
        << <<sb /\ AboveLbound(c, x) /\ LeBreak(x, br[50]), <<c, 0, 50>> >>,
           <<sb /\ GtBreak(x, br[50]) /\ ~IsNull(x), <<c, 50, 100>> >> >>
    ELSE IF k = 3 THEN
        << <<sb /\ AboveLbound(c, x) /\ LeBreak(x, br[30]), <<c, 0, 30>> >>,
           <<sb /\ GtBreak(x, br[30]) /\ LeBreak(x, br[70]), <<c, 30, 70>> >>,
           <<sb /\ GtBreak(x, br[70]) /\ ~IsNull(x), <<c, 70, 100>> >> >>
    ELSE
        LET pc == PCols(k)
        IN  [b \in 1..k |->
                IF b = 1 THEN
                    <<sb /\ AboveLbound(c, x) /\ LeBreak(x, br[pc[1]]), <<c, 0, pc[1]>> >>
                ELSE IF b = k THEN
                    <<sb /\ GtBreak(x, br[pc[k - 1]]) /\ ~IsNull(x), <<c, pc[k - 1], 100>> >>
                ELSE
                    <<sb /\ GtBreak(x, br[pc[b - 1]]) /\ LeBreak(x, br[pc[b]]),
                      <<c, pc[b - 1], pc[b]>> >>]

EmptyLabel == <<>>

\* np.select(binconds, bvals, default=''): the first condition that holds
RECURSIVE NpSelect(_, _)
NpSelect(conds, i) ==
    IF i > Len(conds) THEN EmptyLabel
    ELSE IF conds[i][1] THEN conds[i][2]
    ELSE NpSelect(conds, i + 1)


\* the bucket counts for which getPortfolioBins does not raise ValueError
GetPortfolioBinsAccepts(k) == k \in PortfolioBinsDims

\* the label getPortfolioBins writes into column id_col + '_port'
GetPortfolioBins(c, x, sb, k, br) == NpSelect(BinConds(c, x, sb, k, br), 1)


(***************************************************************************)
(* _getNyseThresholds (characteristic sorts) and getPortfolioReturns       *)
(***************************************************************************)
RECURSIVE SumOver(_, _)
SumOver(S, g) ==
    IF S = {} THEN 0
    ELSE LET f == CHOOSE x \in S : TRUE
         IN  g[f] + SumOver(S \ {f}, g)

RetTypes == {"vw", "ew"}

\* labels of one firm, one per entry of ffcharac_list:
\*   for ffcharac in ffcharac_list: idx = ffcharac_list.index(ffcharac)
\*       df2 = getPortfolioBins(df2, ffcharac, 'sBool', pDim[idx])
PortsOf(p, f, fidList, pDim) ==
    LET ff == FfcharacList(fidList)
    IN  [i \in DOMAIN ff |->
            GetPortfolioBins(ff[i], p[f][ff[i]], ValidBool(p[f], fidList), pDim[i],
                             NyseCharac(p, fidList, ff[i], pDim[i]))]

\* variant: df5 keeps the rows whose label is the empty string
InDf5KeepsUnlabelled(p, f, fidList, ports) ==
    /\ ValidBool(p[f], fidList)
    /\ Gt0(p[f].port_weight)
    /\ p[f].shrcd \in {10, 11}

\* df5: the rows that enter the aggregation (ports: the labels of firm f)
InDf5(p, f, fidList, ports) ==
    /\ ValidBool(p[f], fidList)
    /\ Gt0(p[f].port_weight)
    /\ p[f].shrcd \in {10, 11}
    /\ \A i \in DOMAIN ports : ports[i] # EmptyLabel

\* one record per bucket that has rows in df5: firm count, sum of weights,
\* weighted sum of returns, plain sum of returns
BucketsOf(p, fidList, pDim) ==
    LET labelled == {<<f, PortsOf(p, f, fidList, pDim)>> : f \in Firms}
        members == {m \in labelled : InDf5(p, m[1], fidList, m[2])}
        w == [f \in Firms |-> p[f].port_weight]
        wr == [f \in Firms |-> p[f].port_weight * p[f].retadj]
        r == [f \in Firms |-> p[f].retadj]
        Group(port) == {m[1] : m \in {n \in members : n[2] = port}}
    IN  {[port |-> port,
          firms |-> Group(port),
          num_firms |-> Cardinality(Group(port)),
          sumw |-> SumOver(Group(port), w),
          sumwr |-> SumOver(Group(port), wr),
          sumr |-> SumOver(Group(port), r)] : port \in {m[2] : m \in members}}

\* how the request ends: "ok" or the exception raised
SortStatus(fidList, pDim, pRetType) ==
    IF Len(pDim) # Len(fidList) THEN "Error"
    ELSE IF Len(pDim) > 3 THEN "ValueError"
    ELSE IF Len(FfcharacList(fidList)) < Len(pDim) THEN "IndexError"
    ELSE IF \E i \in DOMAIN pDim : pDim[i] \notin NyseCharacsDims THEN "ValueError"
    ELSE IF \E i \in DOMAIN pDim : ~GetPortfolioBinsAccepts(pDim[i]) THEN "ValueError"
    ELSE IF pRetType \notin RetTypes THEN "ValueError"
    ELSE IF pRetType = "ew" THEN "KeyError"
    ELSE "ok"

NoResult == [status |-> "none", fidList |-> <<>>, pDim |-> <<>>, pRetType |-> "",
             applied |-> <<>>, ports |-> <<>>, buckets |-> {}]

SortOutcome(p, fidList, pDim, pRetType) ==
    LET st == SortStatus(fidList, pDim, pRetType)
        ff == FfcharacList(fidList)
    IN  IF st = "ok"
        THEN [status |-> st, fidList |-> fidList, pDim |-> pDim, pRetType |-> pRetType,
              applied |-> [i \in DOMAIN ff |-> <<ff[i], pDim[i]>>],
              ports |-> [f \in Firms |-> PortsOf(p, f, fidList, pDim)],
              buckets |-> BucketsOf(p, fidList, pDim)]
        ELSE [NoResult EXCEPT !.status = st, !.fidList = fidList, !.pDim = pDim,
                              !.pRetType = pRetType]


(***************************************************************************)
(* Engine level: run-control flags, lru caches, panels held as attributes. *)
(***************************************************************************)
MaxReq == 3

None == "None"
Freqs == {"D", "M"}
\* dates are abstract; Roll stands for the roll_window of 60 days
Roll == 1
Starts == {2, 3}
Ends == {5, 6}
\* the range a file left by an earlier session covers
StoredRange == <<3, 5>>

Full(f) == IF f \in {"D", "W"} THEN "daily" ELSE "monthly"
FileKinds == {"beta", "resvar", "crspret", "capm", "ff3"}
FileNames == FileKinds \X {"daily", "monthly"}

Min(a, b) == IF a <= b THEN a ELSE b
Max(a, b) == IF a >= b THEN a ELSE b

\* the range a pickled panel covers once the rows before its first date and
\* after its last date have been appended (the `pre` and `post` steps)
ExtendFile(r, s, e) ==
    LET r1 == IF s < r[1] THEN <<s, Min(r[2], e)>> ELSE r
    IN  IF r[2] < e THEN <<Max(r1[1], s), e>> ELSE r1

\* the engine state threaded through one request; cols are the estimated
\* columns the running getMEJune has merged so far
EngState ==
    [rfr |-> runFactorReg, mCCM |-> memoMergeCCM, mJune |-> memoMEJune,
     mReg |-> memoFactorReg, crsp3 |-> dfcrsp3, ccm |-> dfccm_june,
     files |-> files, cols |-> {}, nEst |-> 0, nReg |-> 0]

\* pickle.dump(df, file)
SetFile(st, name, r) == [st EXCEPT !.files[name] = r]

\* self.dfcrsp3 = ...; self.dfcrsp_june = ...
SetCrsp3(st, f, s, e) == [st EXCEPT !.crsp3 = [key |-> <<f, s, e>>, cols |-> st.cols]]

\* self.dfccm_june = self.dfcrsp_june merged with the fundamentals
SetCcmJune(st, f, s, e) ==
    [st EXCEPT !.ccm = [key |-> <<f, s, e>>, cols |-> st.crsp3.cols \cap {"beta"},
                        june |-> st.crsp3.key]]

\* getMEJune called from inside an estimation block: the flag is already False
\* (it is cleared on entering the block), so both blocks are skipped
NestedGetMEJune(st, f, s, e) ==
    IF <<f, s, e>> \in st.mJune THEN st
    ELSE [st EXCEPT !.crsp3 = [key |-> <<f, s, e>>, cols |-> {}],
                    !.mJune = @ \cup {<<f, s, e>>}]

\* mergeCCM called from inside an estimation block
NestedMergeCCM(st, f, s, e) ==
    IF <<f, s, e>> \in st.mCCM THEN st
    ELSE [SetCcmJune(NestedGetMEJune(st, f, s, e), f, s, e)
             EXCEPT !.mCCM = @ \cup {<<f, s, e>>}]

\* the factor tables getFactorRegResults needs:
\*   self.getNyseThresholdsAndRet(self.factorsIdtemp, True, freq, s, e)
\* starts with self.mergeCCM(freq, s, e)
FactorTables(st, f, s, e) == NestedMergeCCM(st, f, s, e)

\* the CRSP returns of getFactorRegResults: load and extend, or query and store
CrspRetStep(st, name, cr, s1, e) ==
    SetFile(st, name, IF runEstimation = FALSE /\ cr # None
                      THEN ExtendFile(cr, s1, e) ELSE <<s1, e>>)

FactorsPre(st, ff, f, s1) ==
    IF s1 < ff[1] THEN FactorTables(st, f, s1, ff[1] + Roll) ELSE st

FactorsPost(st, ff, f, e) ==
    IF ff[2] < e THEN FactorTables(st, f, ff[2] - 2 * Roll, e) ELSE st

\* the factor returns of getFactorRegResults: load and extend, or build and store
FactorsStep(st, name, ff, f, s1, e) ==
    IF runEstimation = FALSE /\ ff # None
    THEN SetFile(FactorsPost(FactorsPre(st, ff, f, s1), ff, f, e), name, ExtendFile(ff, s1, e))
    ELSE SetFile(FactorTables(st, f, s1, e), name, <<s1, e>>)

\* the body of getFactorRegResults; dt_start is moved back by roll_window
GetFactorRegResultsBody(st, ffmodel, f, s, e) ==
    FactorsStep(CrspRetStep(st, <<"crspret", Full(f)>>, st.files[<<"crspret", Full(f)>>],
                            s - Roll, e),
                <<ffmodel, Full(f)>>, st.files[<<ffmodel, Full(f)>>], f, s - Roll, e)

GetFactorRegResults(st, ffmodel, f, s, e) ==
    IF <<ffmodel, f, s, e>> \in st.mReg THEN st
    ELSE [GetFactorRegResultsBody(st, ffmodel, f, s, e)
             EXCEPT !.mReg = @ \cup {<<ffmodel, f, s, e>>}, !.nReg = @ + 1]

RegPre(st, b, ffmodel, regFreq, s) ==
    IF s < b[1] THEN GetFactorRegResults(st, ffmodel, regFreq, s, b[1]) ELSE st

RegPost(st, b, ffmodel, regFreq, e) ==
    IF b[2] < e THEN GetFactorRegResults(st, ffmodel, regFreq, b[2], e) ELSE st

\* the estimates of one block: load the pickled estimates, extend them, or
\* estimate from scratch
Estimates(st, name, b, ffmodel, regFreq, s, e) ==
    IF runEstimation = FALSE /\ b # None
    THEN IF s < b[1] \/ b[2] < e
         THEN SetFile(RegPost(RegPre(st, b, ffmodel, regFreq, s), b, ffmodel, regFreq, e),
                      name, ExtendFile(b, s, e))
         ELSE st
    ELSE SetFile(GetFactorRegResults(st, ffmodel, regFreq, s, e), name, <<s, e>>)

\* one estimation block of getMEJune: clear the flag, get the estimates,
\* merge their column into dfcrsp2
EstimationBlock(st, kind, ffmodel, regFreq, f, s, e) ==
    [Estimates([st EXCEPT !.rfr = FALSE, !.nEst = @ + 1],
               <<kind, Full(f)>>, st.files[<<kind, Full(f)>>], ffmodel, regFreq, s, e)
        EXCEPT !.cols = @ \cup {kind}]

\* if 'BETA' in ... and self.runFactorReg: self.runFactorReg = False; ...
BetaBlock(st, f, s, e) ==
    IF "BETA" \in Range(sortCharacsId) /\ st.rfr
    THEN EstimationBlock(st, "beta", "capm", IF f \in {"D", "W"} THEN "D" ELSE "M", f, s, e)
    ELSE st

\* if 'RESVAR' in ... and self.runFactorReg: self.runFactorReg = False; ...
ResvarBlock(st, f, s, e) ==
    IF "RESVAR" \in Range(sortCharacsId) /\ st.rfr
    THEN EstimationBlock(st, "resvar", "ff3", "D", f, s, e)
    ELSE st

\* variant: the BETA block tests the flag as it was when getMEJune was entered
GetMEJuneBodyFlagReadOnEntry(st, f, s, e) ==
    SetCrsp3([BetaBlock([ResvarBlock([st EXCEPT !.cols = {}], f, s, e) EXCEPT !.rfr = st.rfr],
                        f, s, e) EXCEPT !.rfr = FALSE], f, s, e)

\* the body of getMEJune: it returns None and leaves its panel in self.dfcrsp3
GetMEJuneBody(st, f, s, e) ==
    SetCrsp3(BetaBlock(ResvarBlock([st EXCEPT !.cols = {}], f, s, e), f, s, e), f, s, e)

\* @lru_cached_method: a cached key returns at once, without the body
GetMEJune(st, f, s, e) ==
    IF <<f, s, e>> \in st.mJune THEN st
    ELSE [GetMEJuneBody(st, f, s, e) EXCEPT !.mJune = @ \cup {<<f, s, e>>}]

\* the body of mergeCCM: it returns None and leaves its panel in self.dfccm_june
MergeCCMBody(st, f, s, e) == SetCcmJune(GetMEJune(st, f, s, e), f, s, e)

MergeCCM(st, f, s, e) ==
    IF <<f, s, e>> \in st.mCCM THEN st
    ELSE [MergeCCMBody(st, f, s, e) EXCEPT !.mCCM = @ \cup {<<f, s, e>>}]

\* _getNyseThresholds on the panels the engine holds, for a sort on the
\* engine's characteristics with one bucket count per characteristic
EngSortStatus(st) ==
    LET chars == Range(sortCharacsId)
    IN  IF "BETA" \in chars /\ ~st.rfr /\ "beta" \notin st.ccm.cols THEN "KeyError"
        ELSE IF "RESVAR" \in chars /\ ~st.rfr /\ "resvar" \notin st.crsp3.cols THEN "KeyError"
        ELSE IF chars \cap {"BETA", "RESVAR"} # {} /\ st.rfr THEN "IndexError"
        ELSE "ok"

EngCharacsChoices ==
    {<<"ME">>, <<"BETA">>, <<"RESVAR">>, <<"ME", "BETA">>, <<"BETA", "RESVAR">>}
NoPanel == [key |-> None, cols |-> {}]
NoJune == [key |-> None, cols |-> {}, june |-> None]
NoReq == [key |-> None, status |-> "none", hit |-> FALSE, ccm |-> NoJune,
          crsp |-> NoPanel, nEst |-> 0, nReg |-> 0, afterReset |-> FALSE]
NoFiles == [n \in FileNames |-> None]
StoredFiles == [n \in FileNames |-> StoredRange]

\* the attributes a request leaves on the engine, and its outcome
Finish(st, f, s, e) ==
    /\ runFactorReg' = st.rfr
    /\ memoMergeCCM' = st.mCCM
    /\ memoMEJune' = st.mJune
    /\ memoFactorReg' = st.mReg
    /\ dfcrsp3' = st.crsp3
    /\ dfccm_june' = st.ccm
    /\ files' = st.files
    /\ lastReq' = [key |-> <<f, s, e>>, status |-> EngSortStatus(st),
                   hit |-> <<f, s, e>> \in memoMergeCCM,
                   ccm |-> st.ccm, crsp |-> st.crsp3,
                   nEst |-> st.nEst, nReg |-> st.nReg,
                   afterReset |-> (callerSet = "pending" /\ nReq > 0)]

\* getPortfolios(..., freq, dt_start, dt_end, ...) on the engine's own
\* characteristics: getNyseThresholdsAndRet -> mergeCCM -> _getNyseThresholds
Request(f, s, e) ==
    /\ nReq < MaxReq
    /\ Finish(MergeCCM(EngState, f, s, e), f, s, e)
    /\ nReq' = nReq + 1
    /\ callerSet' = IF callerSet = "pending" THEN "used" ELSE callerSet
    /\ UNCHANGED <<panel, sortCharacsId, sortResult, runEstimation>>
    /\ UNCHANGED fnVars

\* the caller writes the attribute: engine.runFactorReg = True
ResetFlag ==
    /\ nReq < MaxReq
    /\ runFactorReg' = TRUE
    /\ callerSet' = "pending"
    /\ UNCHANGED <<panel, sortCharacsId, sortResult, runEstimation, memoMergeCCM,
                   memoMEJune, memoFactorReg, dfcrsp3, dfccm_june, files, lastReq, nReq>>
    /\ UNCHANGED fnVars

IdlePanel == CHOOSE p \in Panels(<<"ME">>) : TRUE

Init ==
    /\ panel = IdlePanel
    /\ sortCharacsId \in EngCharacsChoices
    /\ sortResult = NoResult
    /\ runEstimation \in BOOLEAN
    /\ runFactorReg = TRUE
    /\ memoMergeCCM = {}
    /\ memoMEJune = {}
    /\ memoFactorReg = {}
    /\ dfcrsp3 = NoPanel
    /\ dfccm_june = NoJune
    /\ files \in {NoFiles, StoredFiles}
    /\ lastReq = NoReq
    /\ nReq = 0
    /\ callerSet = "never"
    /\ args = NoArgs
    /\ result = NoValue

Next ==
    \/ \E f \in Freqs, s \in Starts, e \in Ends : Request(f, s, e)
    \/ ResetFlag

Spec == Init /\ [][Next]_vars


(***************************************************************************)
(* Properties of the engine's run control.                                 *)
(***************************************************************************)
\* the characteristics of the engine that come from a rolling regression
Estimated == Range(sortCharacsId) \cap {"BETA", "RESVAR"}

\* C2: after any sequence of requests, the panels a request for (f, R) is
\* computed from are the alignment panels built for (f, R), whether mergeCCM
\* and getMEJune ran or were served from their caches.
C2_RequestUsesOwnPanels ==
    lastReq.key # None =>
        /\ dfccm_june.key = lastReq.key
        /\ dfccm_june.june = lastReq.key
        /\ dfcrsp3.key = lastReq.key

\* C3: on an engine whose caller never writes runFactorReg, every sort request
\* on BETA or on RESVAR completes, with that characteristic in the sort.
C3_FlagManagedInternally ==
    (callerSet = "never" /\ lastReq.key # None /\ Cardinality(Estimated) = 1)
        => lastReq.status = "ok"

\* C4: a request issued right after the caller has reset runFactorReg to True
\* behaves like a request on a fresh engine: the estimation block is entered
\* and the request completes with the characteristic in the sort.
C4_ResetBehavesLikeFresh ==
    (lastReq.afterReset /\ Cardinality(Estimated) = 1)
        => (lastReq.status = "ok" /\ lastReq.nEst = 1)

SortLists == {<<"ME">>, <<"OP">>, <<"ME", "BM">>, <<"BM", "ME">>, <<"ME", "OP">>}
\* bucket counts a caller passes: every count of the documented list and one
\* outside it for a one-way sort, small counts for a two-way sort
UniDims == NyseCharacsDims \cup {7}
BiDims == {2, 3}
PDims == {<<k>> : k \in UniDims} \cup {<<a, b>> : a \in BiDims, b \in BiDims}

\* getPortfolioReturns(..., pDim, pRetType) through getPortfolios and
\* getNyseThresholdsAndRet to _getNyseThresholds
GetPortfolioReturns(pDim, pRetType) ==
    /\ sortResult = NoResult
    /\ sortResult' = SortOutcome(panel, sortCharacsId, pDim, pRetType)
    /\ UNCHANGED <<panel, sortCharacsId>>
    /\ UNCHANGED engVars
    /\ UNCHANGED fnVars

\* the caller drops the tables it was returned before it asks again
Discard ==
    /\ sortResult # NoResult
    /\ sortResult' = NoResult
    /\ UNCHANGED <<panel, sortCharacsId>>
    /\ UNCHANGED engVars
    /\ UNCHANGED fnVars

InitSort ==
    /\ sortCharacsId \in SortLists
    /\ panel \in Panels(sortCharacsId)
    /\ sortResult = NoResult
    /\ runEstimation = FALSE
    /\ runFactorReg = TRUE
    /\ memoMergeCCM = {}
    /\ memoMEJune = {}
    /\ memoFactorReg = {}
    /\ dfcrsp3 = NoPanel
    /\ dfccm_june = NoJune
    /\ files = NoFiles
    /\ lastReq = NoReq
    /\ nReq = 0
    /\ callerSet = "never"
    /\ args = NoArgs
    /\ result = NoValue

NextSort ==
    \/ \E pDim \in PDims, pRetType \in RetTypes : GetPortfolioReturns(pDim, pRetType)
    \/ Discard

SpecSort == InitSort /\ [][NextSort]_vars


(***************************************************************************)
(* Properties of a sort request.                                           *)
(***************************************************************************)
\* the request named every characteristic a bucket count of the documented list
ListedDims ==
    /\ sortResult.status # "none"
    /\ Len(sortResult.pDim) = Len(sortCharacsId)
    /\ \A i \in DOMAIN sortResult.pDim : sortResult.pDim[i] \in NyseCharacsDims

\* C1: after a sort, every firm that passes the validity predicate of every
\* sorted characteristic is in exactly one bucket (and so in no two buckets).
C1_EligibleInExactlyOneBucket ==
    sortResult.status = "ok" =>
        \A f \in Firms :
            ValidBool(panel[f], sortCharacsId) =>
                Cardinality({b \in sortResult.buckets : f \in b.firms}) = 1

\* C6: a sort request whose bucket counts are all in
\* {2,3,4,5,6,8,10,20,25,50,100} is accepted.
C6_EveryListedCountAccepted ==
    (ListedDims /\ sortResult.pRetType = "vw") => sortResult.status = "ok"

\* C7: for k in {4,5,6,8,10,20,25,50,100} a dimension sorted into k buckets
\* has exactly k-1 cut points, the i-th at percentile 100*i/k, and its bucket
\* labels use these cut points.
C7_EvenlySpacedCutPoints ==
    ListedDims =>
        \A i \in DOMAIN sortResult.pDim :
            LET k == sortResult.pDim[i]
            IN  k >= 4 =>
                    /\ Len(Ptiles(k)) = k - 1
                    /\ \A j \in 1..Len(Ptiles(k)) : k * Ptiles(k)[j] = 100 * j
                    /\ PCols(k) = Ptiles(k)

\* C8: an equal-weighted request with accepted bucket counts returns, for
\* every bucket, the arithmetic mean of the returns of its firms.
C8_EqualWeightedReturned ==
    (ListedDims /\ sortResult.pRetType = "ew"
        /\ \A i \in DOMAIN sortResult.pDim : GetPortfolioBinsAccepts(sortResult.pDim[i]))
        => sortResult.status = "ok"

\* C9: the i-th bucket count of the request is applied to the i-th
\* characteristic of the caller's list.
C9_DimsFollowCallerOrder ==
    sortResult.status = "ok" =>
        \A i \in DOMAIN sortCharacsId :
            <<Col(sortCharacsId[i]), sortResult.pDim[i]>> \in Range(sortResult.applied)

\* a characteristic the sort requires is missing for firm f
MissingRequired(f) ==
    \E i \in DOMAIN sortCharacsId : IsNull(panel[f][Col(sortCharacsId[i])])

\* the buckets of the one-way sort on size of the same cross-section
SizeSortBuckets == BucketsOf(panel, <<"ME">>, <<2>>)

NumGvkeys == 2
NumYears == 2
MaxLogAt == 2

Gvkeys == 1..NumGvkeys
Years == 1..NumYears
Nil == <<>>
Some(x) == <<x>>
Opt(S) == {Nil} \cup {Some(x) : x \in S}

\* the inputs of operating profitability for one firm-year: book equity
\* missing, revenue missing, every cost item missing, or all present with
\* revenue 1 or 2
OpCases == {"be", "revt", "costs", "ok1", "ok2"}

\* one Compustat firm-year as queryComp reads it, after book equity was built
CompRow(g, y, lat, c) ==
    [gvkey |-> g, year |-> y, lat |-> lat,
     be |-> IF c = "be" THEN Nil ELSE Some(1),
     revt |-> IF c = "revt" THEN Nil ELSE Some(IF c = "ok2" THEN 2 ELSE 1),
     xp_allnan |-> (c = "costs")]

\* the rows of a query: every firm has a row per fiscal year; the inputs of
\* profitability vary in the last fiscal year
CompPanels ==
    {{CompRow(k[1], k[2], lats[k], IF k[2] = NumYears THEN cs[k[1]] ELSE "ok1") :
          k \in Gvkeys \X Years} :
       lats \in [Gvkeys \X Years -> Opt(0..MaxLogAt)], cs \in [Gvkeys -> OpCases]}

\* the non-missing values of a column, ascending, as pandas' quantile sees them
RECURSIVE AscendingFrom(_, _, _)
AscendingFrom(rows, col, x) ==
    LET here == {r \in rows : col[r] = Some(x)}
        above == {r \in rows : col[r] # Nil /\ col[r][1] > x}
    IN  [i \in 1..Cardinality(here) |-> x] \o
        (IF above = {} THEN <<>>
         ELSE AscendingFrom(rows, col,
                  CHOOSE m \in {col[r][1] : r \in above} :
                      \A r \in above : m <= col[r][1]))

NonMissing(rows, col) ==
    LET present == {r \in rows : col[r] # Nil}
    IN  IF present = {} THEN <<>>
        ELSE AscendingFrom(rows, col,
                 CHOOSE m \in {col[r][1] : r \in present} :
                     \A r \in present : m <= col[r][1])

\* Series.quantile(pct / 100), a hundred times the value; NaN on an empty column
Quantile100(rows, col, pct) ==
    IF NonMissing(rows, col) = <<>> THEN Nil
    ELSE Some(Percentile100(NonMissing(rows, col), pct))

\* be > 0, revt present, some cost item present: profitability is revenue net
\* of costs over book equity (costs are nil in the rows of the model)
OpRaw(r) ==
    IF r.be # Nil /\ r.revt # Nil /\ ~r.xp_allnan THEN Some(r.revt[1]) ELSE Nil

\* np.where(op <= quantile(0.99), op, nan), in hundredths
OpTrimmed(rows, r) ==
    LET raw == [x \in rows |-> OpRaw(x)]
        q99 == Quantile100(rows, raw, 99)
    IN  IF raw[r] # Nil /\ q99 # Nil /\ 100 * raw[r][1] <= q99[1]
        THEN Some(100 * raw[r][1]) ELSE Nil

\* log(at) - log(at.shift(1)) within the firm, kept where it is not null
InvRaw(rows, r) ==
    LET prev == {x \in rows : x.gvkey = r.gvkey /\ x.year = r.year - 1}
    IN  IF prev = {} \/ r.lat = Nil THEN Nil
        ELSE LET x == CHOOSE x \in prev : TRUE
             IN  IF x.lat = Nil THEN Nil ELSE Some(r.lat[1] - x.lat[1])

\* np.where(quantile(0.15) <= inv, inv, quantile(0.15)), in hundredths: a
\* comparison with NaN is False, and the quantile is what np.where then takes
InvFloored(rows, raw, r) ==
    LET q15 == Quantile100(rows, raw, 15)
    IN  IF q15 # Nil /\ raw[r] # Nil /\ q15[1] <= 100 * raw[r][1]
        THEN Some(100 * raw[r][1]) ELSE q15

\* np.where(inv <= quantile(0.99), inv, quantile(0.99)), in ten-thousandths
InvCapped(rows, floored, r) ==
    LET q99 == Quantile100(rows, floored, 99)
    IN  IF q99 # Nil /\ floored[r] # Nil /\ 100 * floored[r][1] <= q99[1]
        THEN Some(100 * floored[r][1]) ELSE q99

InvWinsorized(rows, r) ==
    LET raw == [x \in rows |-> InvRaw(rows, x)]
        floored == [x \in rows |-> InvFloored(rows, raw, x)]
    IN  InvCapped(rows, floored, r)

\* groupby(gvkey).cumcount(): the number of earlier rows of the firm
CumCount(rows, r) == Cardinality({x \in rows : x.gvkey = r.gvkey /\ x.year < r.year})

\* queryComp's returned frame, one row per firm-year
QueryComp(rows) ==
    {[gvkey |-> r.gvkey, year |-> r.year, be |-> r.be,
      op |-> OpTrimmed(rows, r), inv |-> InvWinsorized(rows, r),
      count |-> CumCount(rows, r)] : r \in rows}

\* queryComp(...) on the rows Compustat returned
CallQueryComp ==
    /\ args.fn = "queryComp"
    /\ result = NoValue
    /\ result' = [fn |-> "queryComp", dfcomp |-> QueryComp(args.rows)]
    /\ UNCHANGED <<args, sortVars, engVars>>

InitComp ==
    /\ args \in {[fn |-> "queryComp", rows |-> p] : p \in CompPanels}
    /\ result = NoValue
    /\ panel = IdlePanel
    /\ sortCharacsId = <<"ME">>
    /\ sortResult = NoResult
    /\ runEstimation = FALSE
    /\ runFactorReg = TRUE
    /\ memoMergeCCM = {}
    /\ memoMEJune = {}
    /\ memoFactorReg = {}
    /\ dfcrsp3 = NoPanel
    /\ dfccm_june = NoJune
    /\ files = NoFiles
    /\ lastReq = NoReq
    /\ nReq = 0
    /\ callerSet = "never"

NextComp == CallQueryComp

SpecComp == InitComp /\ [][NextComp]_vars

\* the firm-years whose inputs do not determine the characteristic
OpInputsMissing(r) == r.be = Nil \/ r.revt = Nil \/ r.xp_allnan
InvInputsMissing(rows, r) ==
    \/ r.lat = Nil
    \/ \A x \in rows : x.gvkey = r.gvkey /\ x.year = r.year - 1 => x.lat = Nil

OutRow(r) == CHOOSE o \in result.dfcomp : o.gvkey = r.gvkey /\ o.year = r.year

\* C11: a characteristic whose inputs are insufficient for a firm-year (no
\* book equity, revenue or cost items for operating profitability; no total
\* assets this year or the year before for investment) is missing for that
\* firm-year in the panel queryComp returns: it is not a number.
C11_InsufficientInputsGiveMissing ==
    result.fn = "queryComp" =>
        \A r \in args.rows :
            /\ OpInputsMissing(r) => OutRow(r).op = Nil
            /\ InvInputsMissing(args.rows, r) => OutRow(r).inv = Nil

(***************************************************************************)
(* Aggregation of one period: the rows of dfccm_june / dfcrsp3 with their  *)
(* years in Compustat, delisting-adjusted return, portfolio weight and     *)
(* current market value; the portfolio return, the firm count and the      *)
(* average characteristics of every bucket (SpecAgg).                      *)
(***************************************************************************)
\* variant: the missing returns are not filled
RetAdjKeepsNull(ret) == ret

\* queryCrspdlret: ret and dlret are filled with 0 before
\* retadj = (1 + ret) * (1 + dlret) - 1 (no delisting return in the model)
RetAdj(ret) == IF IsNull(ret) THEN 0 ELSE ret

\* the main characteristics of the instance, averaged within each bucket
MainCharacsId == <<"ME", "BM">>

\* a row of an instance sorted on size that also reports the average
\* book-to-market: count is the cumcount of queryComp, ret the CRSP return,
\* pw the lagged market value used as portfolio weight, me_t the market value
\* of the month itself
AggRow(f, count, me, bm, ret, pw) ==
    [permno |-> f, exchcd |-> 1, shrcd |-> 10, count |-> count,
     me |-> me, be |-> 1, bm |-> bm, op |-> NaN,
     revt |-> 1, xp_allnan |-> FALSE, retadj |-> RetAdj(ret), port_weight |-> pw,
     me_t |-> f]

\* <<count, me, bm, ret, pw>>: the second or third year in Compustat, the June
\* market value, a low or a high book-to-market, a CRSP return that is
\* missing or 1, a lagged market value that is nil or 1
AggRowVals == (1..2) \X Vals \X {1, 2} \X {NaN, 1} \X {0, 1}

AggPanels ==
    {[f \in Firms |-> AggRow(f, t[f][1], t[f][2], t[f][3], t[f][4], t[f][5])] :
        t \in [Firms -> AggRowVals]}

\* a column product and the weights kept by grouped_vwAvg:
\*   df1[weights] = df1[col_weights].where(~df1[value_x_weight].isnull())
Product(v, w) == IF IsNull(v) \/ IsNull(w) THEN NaN ELSE v * w

\* variant: a row whose product is zero is left out like a null one
grouped_vwAvgDropsZero(p, G, col_values, col_weights) ==
    LET prod == [f \in Firms |-> Product(p[f][col_values], p[f][col_weights])]
        wts == [f \in Firms |-> p[f][col_weights]]
        used == {f \in G : Gt0(prod[f])}
    IN  [num |-> SumOver(used, prod), den |-> SumOver(used, wts), firms |-> used]

\* utils.grouped_vwAvg on the rows G of one group: groupby(...).sum() skips
\* the nulls; the average is num / den
grouped_vwAvg(p, G, col_values, col_weights) ==
    LET prod == [f \in Firms |-> Product(p[f][col_values], p[f][col_weights])]
        wts == [f \in Firms |-> p[f][col_weights]]
        used == {f \in G : ~IsNull(prod[f])}
    IN  [num |-> SumOver(used, prod), den |-> SumOver(used, wts), firms |-> used]

\* groupby(...)[col].mean() on the rows G of one group
GroupMean(p, G, col) ==
    LET vals == [f \in Firms |-> p[f][col]]
        used == {f \in G : ~IsNull(vals[f])}
    IN  [num |-> SumOver(used, vals), den |-> Cardinality(used), firms |-> used]

\* dfport_ret of one bucket
PortRet(p, G, pRetType) ==
    IF pRetType = "vw" THEN grouped_vwAvg(p, G, "retadj", "port_weight")
    ELSE GroupMean(p, G, "retadj")

\* create_pivot_table(df5, charac, 'me_t', cols1, cols_port) for one bucket
create_pivot_table(p, G, charac) ==
    IF charac = "me" THEN [weightType |-> "ewavg"] @@ GroupMean(p, G, charac)
    ELSE [weightType |-> "vwavg"] @@ grouped_vwAvg(p, G, charac, "me_t")

\* the three tables getPortfolios returns, bucket by bucket
PortfolioTables(p, fidList, pDim, pRetType) ==
    {[port |-> b.port,
      df5 |-> b.firms,
      ret |-> PortRet(p, b.firms, pRetType),
      num_firms |-> Cardinality(b.firms),
      characs |-> [c \in Range(MainCharacsId) |-> create_pivot_table(p, b.firms, Col(c))]] :
        b \in BucketsOf(p, fidList, pDim)}

NoTables == {}

\* getPortfolios(...) of one period: the labels of every firm, the tables
\* _getNyseThresholds had built when it reached the pivot on 'vwret', and the
\* tables returned to the caller
GetPortfolios(p, fidList, pDim, pRetType) ==
    LET st == SortStatus(fidList, pDim, pRetType)
    IN  [fn |-> "getPortfolios", status |-> st, pDim |-> pDim, pRetType |-> pRetType,
         ports |-> IF st = "ok" THEN [f \in Firms |-> PortsOf(p, f, fidList, pDim)]
                   ELSE [f \in Firms |-> <<EmptyLabel>>],
         built |-> IF st \in {"ok", "KeyError"}
                   THEN PortfolioTables(p, fidList, pDim, pRetType) ELSE NoTables,
         tables |-> IF st = "ok" THEN PortfolioTables(p, fidList, pDim, pRetType)
                    ELSE NoTables]

AggDims == {<<2>>, <<3>>}

CallGetPortfolios(pDim, pRetType) ==
    /\ args.fn = "getPortfolios"
    /\ result = NoValue
    /\ result' = GetPortfolios(panel, sortCharacsId, pDim, pRetType)
    /\ UNCHANGED <<args, sortVars, engVars>>

InitAgg ==
    /\ args = [fn |-> "getPortfolios"]
    /\ result = NoValue
    /\ panel \in AggPanels
    /\ sortCharacsId = <<"ME">>
    /\ sortResult = NoResult
    /\ runEstimation = FALSE
    /\ runFactorReg = TRUE
    /\ memoMergeCCM = {}
    /\ memoMEJune = {}
    /\ memoFactorReg = {}
    /\ dfcrsp3 = NoPanel
    /\ dfccm_june = NoJune
    /\ files = NoFiles
    /\ lastReq = NoReq
    /\ nReq = 0
    /\ callerSet = "never"

NextAgg == \E pDim \in AggDims, pRetType \in RetTypes : CallGetPortfolios(pDim, pRetType)

SpecAgg == InitAgg /\ [][NextAgg]_vars

\* the firms getPortfolioBins gave a label, and those a table aggregates
Labelled == {f \in Firms : \A i \in DOMAIN result.ports[f] : result.ports[f][i] # EmptyLabel}
Aggregated == UNION {b.df5 : b \in result.tables}

\* C12: a firm is given a bucket label, or enters a bucket's aggregation, only
\* if it has at least two fiscal years of history in the fundamentals panel
\* (count >= 2) and a positive market value.
C12_GateAppliesToAssignmentAndAggregation ==
    result.fn = "getPortfolios" /\ result.status = "ok" =>
        \A f \in Labelled \cup Aggregated : panel[f].count >= 2 /\ Gt0(panel[f].me)

(***************************************************************************)
(* mergeCCM: the link of the June rows of CRSP with Compustat (SpecCCM).   *)
(* A datadate is <<calendar year, month>>; a June date is its year.        *)
(***************************************************************************)
NumPermnos == 2

Permnos == 1..NumPermnos
JuneDates == 2..(NumYears + 1)

\* the fiscal year ends of one firm within one calendar year: no record, a
\* December year end, or a March and a December year end (the firm moved its
\* fiscal year end)
DatadateChoices == {{}, {12}, {3, 12}}

\* dfcomp: rows (gvkey, datadate), no two alike
Dfcomps ==
    {UNION {{[gvkey |-> k[1], datadate |-> <<k[2], m>>] : m \in ch[k]} :
                k \in Gvkeys \X Years} :
        ch \in [Gvkeys \X Years -> DatadateChoices]}

\* crsp.ccmxpf_linktable: at most one link per gvkey, valid from linkdt to
\* linkenddt
NoLink == [gvkey |-> 0, permno |-> 0, linkdt |-> 0, linkenddt |-> 0]
LinkChoices(g) ==
    {NoLink} \cup
    {[gvkey |-> g, permno |-> p, linkdt |-> a, linkenddt |-> b] :
        p \in Permnos, a \in JuneDates, b \in JuneDates}
Dfccms ==
    {{l[g] : g \in Gvkeys} \ {NoLink} :
        l \in {m \in [Gvkeys -> UNION {LinkChoices(g) : g \in Gvkeys}] :
                  \A g \in Gvkeys : m[g] \in LinkChoices(g) /\ m[g].linkdt <= m[g].linkenddt}}

\* self.dfcrsp_june as getMEJune leaves it: the June row of a security in a
\* year, sorted and with duplicates dropped
DfcrspJunes == SUBSET {[permno |-> p, date |-> d] : p \in Permnos, d \in JuneDates}

\* datadate + YearEnd(0) + MonthEnd(6): June of the next calendar year
FormationDate(datadate) == datadate[1] + 1

\* dfccm1: dfcomp left-merged with the links on gvkey; a row without a link
\* has null link dates and fails the date tests of dfccm2
Dfccm1(dfcomp, dfccm) == {cl \in dfcomp \X dfccm : cl[1].gvkey = cl[2].gvkey}

\* dfccm2: the rows whose formation date lies within the link's dates
Dfccm2(dfcomp, dfccm) ==
    {[gvkey |-> cl[1].gvkey, permno |-> cl[2].permno, datadate |-> cl[1].datadate,
      date |-> FormationDate(cl[1].datadate)] :
        cl \in {x \in Dfccm1(dfcomp, dfccm) :
                   /\ FormationDate(x[1].datadate) >= x[2].linkdt
                   /\ FormationDate(x[1].datadate) <= x[2].linkenddt}}

\* self.dfccm_june = self.dfcrsp_june.merge(dfccm2, how='inner', on=['permno', 'date'])
MergeOnPermnoDate(dfcrsp_june, dfccm2) ==
    {r \in dfccm2 : \E j \in dfcrsp_june : j.permno = r.permno /\ j.date = r.date}

CallMergeCCM ==
    /\ args.fn = "mergeCCM"
    /\ result = NoValue
    /\ result' = [fn |-> "mergeCCM",
                  dfccm_june |-> MergeOnPermnoDate(args.dfcrsp_june,
                                                   Dfccm2(args.dfcomp, args.dfccm))]
    /\ UNCHANGED <<args, sortVars, engVars>>

InitCCM ==
    /\ args \in {[fn |-> "mergeCCM", dfcomp |-> c, dfccm |-> l, dfcrsp_june |-> j] :
                    c \in Dfcomps, l \in Dfccms, j \in DfcrspJunes}
    /\ result = NoValue
    /\ panel = IdlePanel
    /\ sortCharacsId = <<"ME">>
    /\ sortResult = NoResult
    /\ runEstimation = FALSE
    /\ runFactorReg = TRUE
    /\ memoMergeCCM = {}
    /\ memoMEJune = {}
    /\ memoFactorReg = {}
    /\ dfcrsp3 = NoPanel
    /\ dfccm_june = NoJune
    /\ files = NoFiles
    /\ lastReq = NoReq
    /\ nReq = 0
    /\ callerSet = "never"

NextCCM == CallMergeCCM

SpecCCM == InitCCM /\ [][NextCCM]_vars

\* C13: the formation panel never holds two rows for the same security and
\* formation year.
C13_OneRowPerSecurityAndYear ==
    result.fn = "mergeCCM" =>
        \A r1 \in result.dfccm_june, r2 \in result.dfccm_june :
            r1.permno = r2.permno /\ r1.date = r2.date => r1 = r2

(***************************************************************************)
(* getMEJune at monthly frequency: the lag of the characteristics that are *)
(* refreshed every month (SpecLag).  A date is <<month, day>>; an estimate *)
(* is identified with the date of the last return it was computed from.    *)
(***************************************************************************)
NumMonths == 3
TradingDays == 2

Months == 1..NumMonths
LagCharacs == {"VAR", "RESVAR"}

\* date + MonthEnd(0): the last calendar day of the month, which is the last
\* trading day (eom[m]) or a day without trading after it
MonthEnd(eom, m) == <<m, IF eom[m] THEN TradingDays ELSE TradingDays + 1>>

Before(d1, d2) == d1[1] < d2[1] \/ (d1[1] = d2[1] /\ d1[2] < d2[2])

\* dfcrsp2: the monthly rows of a security from its first month on
Dfcrsp2(first, eom) ==
    {[permno |-> k[1], date |-> MonthEnd(eom, k[2])] :
        k \in {x \in Permnos \X Months : x[2] >= first[x[1]]}}

\* getFactorRegResults(..., boolRVar=True, freq='D', ...): one estimate per
\* security and trading day
DailyEstimates(first) ==
    {[permno |-> k[1], date |-> <<k[2], k[3]>>, val |-> <<k[2], k[3]>>] :
        k \in {x \in Permnos \X Months \X (1..TradingDays) : x[2] >= first[x[1]]}}

\* getCrspDailyRollVar at monthly frequency: the estimate of the last trading
\* day of each month, dated date_crsp + MonthEnd(0)
MonthlyRollVar(first, eom) ==
    {[permno |-> k[1], date |-> MonthEnd(eom, k[2]), val |-> <<k[2], TradingDays>>] :
        k \in {x \in Permnos \X Months : x[2] >= first[x[1]]}}

\* the rows of the last date of each (permno, year, month), dated MonthEnd(0)
EndOfMonthRows(rows, eom) ==
    {[permno |-> r.permno, date |-> MonthEnd(eom, r.date[1]), val |-> r.val] :
        r \in {x \in rows : \A y \in rows :
                  y.permno = x.permno /\ y.date[1] = x.date[1] => ~Before(x.date, y.date)}}

\* groupby(['permno'])[col].shift(1): the value of the security's previous row
Shift1(rows) ==
    {[permno |-> r.permno, date |-> r.date,
      val |-> LET prev == {x \in rows : x.permno = r.permno /\ Before(x.date, r.date)}
              IN  IF prev = {} THEN Nil
                  ELSE (CHOOSE x \in prev : \A y \in prev : ~Before(x.date, y.date)).val] :
        r \in rows}

\* dfcrsp2.merge(right, how='left', on=['permno', 'date'])
LeftMerge(left, right) ==
    {[permno |-> l.permno, date |-> l.date,
      val |-> LET hit == {x \in right : x.permno = l.permno /\ x.date = l.date}
              IN  IF hit = {} THEN Nil ELSE (CHOOSE x \in hit : TRUE).val] :
        l \in left}

\* the frame the RESVAR block lags: the pickled daily estimates when the file
\* is used, or the fresh estimates reduced to the end of each month
ResvarFrame(first, eom, estimate, stored) ==
    IF ~estimate /\ stored THEN DailyEstimates(first)
    ELSE EndOfMonthRows(DailyEstimates(first), eom)

\* the column getMEJune merges into dfcrsp2 for the characteristic
LaggedCharac(c, first, eom, estimate, stored) ==
    IF c = "VAR"
    THEN LeftMerge(Dfcrsp2(first, eom), Shift1(MonthlyRollVar(first, eom)))
    ELSE LeftMerge(Dfcrsp2(first, eom),
                   Shift1(ResvarFrame(first, eom, estimate, stored)))

CallGetMEJune ==
    /\ args.fn = "getMEJune"
    /\ result = NoValue
    /\ result' = [fn |-> "getMEJune",
                  dfcrsp2 |-> LaggedCharac(args.charac, args.first, args.eom, runEstimation,
                                           files[<<"resvar", "monthly">>] # None)]
    /\ UNCHANGED <<args, sortVars, engVars>>

InitLag ==
    /\ args \in {[fn |-> "getMEJune", charac |-> c, first |-> f, eom |-> e] :
                    c \in LagCharacs, f \in [Permnos -> Months], e \in [Months -> BOOLEAN]}
    /\ result = NoValue
    /\ panel = IdlePanel
    /\ sortCharacsId = <<"ME">>
    /\ sortResult = NoResult
    /\ runEstimation \in BOOLEAN
    /\ runFactorReg = TRUE
    /\ memoMergeCCM = {}
    /\ memoMEJune = {}
    /\ memoFactorReg = {}
    /\ dfcrsp3 = NoPanel
    /\ dfccm_june = NoJune
    /\ files \in {NoFiles, StoredFiles}
    /\ lastReq = NoReq
    /\ nReq = 0
    /\ callerSet = "never"

NextLag == CallGetMEJune

SpecLag == InitLag /\ [][NextLag]_vars

\* C14: the value of a monthly refreshed characteristic attached to a
\* security's observation of month t was computed as of month t-1: from
\* returns up to the end of month t-1 and none of month t.
C14_ValueOfPeriodIsLagged ==
    result.fn = "getMEJune" =>
        \A r \in result.dfcrsp2 : r.val # Nil => r.val[1] = r.date[1] - 1

(***************************************************************************)
(* Configuration errors of a public request on the engine (SpecConfig):    *)
(* where getPortfolioReturns, queryCrsp and get_nyse_characs raise, and    *)
(* what the engine has done by then.                                       *)
(***************************************************************************)
MaxConfigReq == 2

\* the frequency codes queryCrsp accepts
StandardFreqs == {"D", "W", "M", "Q", "A"}
\* the frequencies of the model's instances, and a code that is none
ConfigFreqs == Freqs \cup {"X"}
\* bucket-count lists: of one or two entries, with and without a count (7)
\* that get_nyse_characs does not know
ConfigDims == {<<2>>, <<7>>, <<2, 3>>, <<2, 7>>}

\* a request that raised before the engine did anything
Rejected(f, s, e, status) ==
    /\ lastReq' = [NoReq EXCEPT !.key = <<f, s, e>>, !.status = status]
    /\ UNCHANGED <<runFactorReg, memoMergeCCM, memoMEJune, memoFactorReg,
                   dfcrsp3, dfccm_june, files>>

\* a request that raised inside _getNyseThresholds, after mergeCCM returned
\* with the attributes st
FinishRaising(st, f, s, e, status) ==
    /\ runFactorReg' = st.rfr
    /\ memoMergeCCM' = st.mCCM
    /\ memoMEJune' = st.mJune
    /\ memoFactorReg' = st.mReg
    /\ dfcrsp3' = st.crsp3
    /\ dfccm_june' = st.ccm
    /\ files' = st.files
    /\ lastReq' = [key |-> <<f, s, e>>, status |-> status,
                   hit |-> <<f, s, e>> \in memoMergeCCM,
                   ccm |-> st.ccm, crsp |-> st.crsp3,
                   nEst |-> st.nEst, nReg |-> st.nReg,
                   afterReset |-> (callerSet = "pending" /\ nReq > 0)]

\* getPortfolioReturns(False, dt_start, dt_end, pDim, 'vw') on an instance of
\* frequency f: the length test of getPortfolioReturns, then getPortfolios ->
\* getNyseThresholdsAndRet -> mergeCCM (-> ... -> queryCrsp, which tests the
\* frequency first) -> _getNyseThresholds -> get_nyse_characs
ConfiguredRequest(f, s, e, pDim) ==
    /\ nReq < MaxConfigReq
    /\ nReq' = nReq + 1
    /\ IF Len(pDim) # Len(sortCharacsId) THEN Rejected(f, s, e, "Error")
       ELSE IF f \notin StandardFreqs THEN Rejected(f, s, e, "ValueError")
       ELSE IF EngSortStatus(MergeCCM(EngState, f, s, e)) = "ok"
               /\ \E i \in DOMAIN pDim : pDim[i] \notin NyseCharacsDims
       THEN FinishRaising(MergeCCM(EngState, f, s, e), f, s, e, "ValueError")
       ELSE Finish(MergeCCM(EngState, f, s, e), f, s, e)
    /\ UNCHANGED <<panel, sortCharacsId, sortResult, runEstimation, callerSet>>
    /\ UNCHANGED fnVars

NextConfig ==
    \E f \in ConfigFreqs, s \in Starts, e \in Ends, pDim \in ConfigDims :
        ConfiguredRequest(f, s, e, pDim)

SpecConfig == Init /\ [][NextConfig]_vars

\* C15: a request that ends with a configuration error (Error for a list of
\* bucket counts of the wrong length, ValueError for an invalid frequency or
\* an unsupported bucket count) leaves the flag, the caches, the panels and
\* the pickled files of the engine as they were before the call.
C15_ConfigErrorsLeaveEngineUntouched ==
    [][(nReq' = nReq + 1 /\ lastReq'.status \in {"Error", "ValueError"})
          => UNCHANGED <<runFactorReg, memoMergeCCM, memoMEJune, memoFactorReg,
                         dfcrsp3, dfccm_june, files>>]_vars

\* C16: in a value-weighted request, the weights summed in the denominator
\* of a bucket's return are those of its constituent firms, and their sum is
\* strictly positive for every bucket that has a constituent.
C16_BucketWeightsSumPositive ==
    result.fn = "getPortfolios" /\ result.pRetType = "vw" =>
        \A b \in result.tables :
            b.df5 # {} => b.ret.den > 0 /\ b.ret.den = SumOver(b.df5, [f \in Firms |-> panel[f].port_weight])

\* a value-weighted bucket of two firms, one of them without a CRSP return
C16_Witness ==
    /\ result.fn = "getPortfolios" /\ result.pRetType = "vw"
    /\ \E b \in result.tables :
           /\ Cardinality(b.df5) >= 2
           /\ \E f \in b.df5, g \in b.df5 : panel[f].retadj = 0 /\ panel[g].retadj # 0

CharacWithReturnWeights(p, G, c, pRetType) ==
    IF c = "ME" \/ pRetType = "ew" THEN [weightType |-> "ewavg"] @@ GroupMean(p, G, Col(c))
    ELSE [weightType |-> "vwavg"] @@ grouped_vwAvg(p, G, Col(c), "port_weight")

\* C18: the request returns, and the average characteristic of every bucket
\* is computed with the weights of the return aggregation: the portfolio
\* weights for a value-weighted request, equal weights for an equal-weighted
\* one, and always the equal-weighted mean for size.
C18_CharacsUseReturnWeights ==
    result.fn = "getPortfolios" /\ result.status \in {"ok", "KeyError"} =>
        /\ result.status = "ok"
        /\ \A b \in result.built : \A c \in Range(MainCharacsId) :
               b.characs[c] = CharacWithReturnWeights(panel, b.df5, c, result.pRetType)

(***************************************************************************)
(* The factor branch of getNyseThresholdsAndRet as getFFfactors calls it.  *)
(* A request is the list factorsId of the instance; every firm of the      *)
(* panel is an NYSE common share with positive size, positive book equity  *)
(* and a return, and may lack book-to-market, revenue or investment.       *)
(***************************************************************************)
FactorNames == {"MKT-RF", "SMB", "HML", "RMW", "CMA"}

\* the lists of distinct factors an instance can be constructed with
FactorsIdLists ==
    {s \in UNION {[1..n -> FactorNames] : n \in 1..Cardinality(FactorNames)} :
        \A i, j \in DOMAIN s : i # j => s[i] # s[j]}

FactorRow(bm, revt, inv) ==
    [me |-> 1, be |-> 1, bm |-> bm, revt |-> revt, xp_allnan |-> FALSE, inv |-> inv]

FactorPanels == [Firms -> {FactorRow(t[1], t[2], t[3]) : t \in {NaN, 1} \X {NaN, 1} \X {NaN, 1}}]

\* factorsIdtemp: the profitability and investment factors come in pairs
FactorsIdtemp(factorsId) ==
    factorsId
    \o (IF "RMW" \in Range(factorsId) /\ "CMA" \notin Range(factorsId) THEN <<"CMA">> ELSE <<>>)
    \o (IF "RMW" \notin Range(factorsId) /\ "CMA" \in Range(factorsId) THEN <<"RMW">> ELSE <<>>)

\* ffcharac_list of a factor
FactorCharacList(fffactor) ==
    IF fffactor = "MKT-RF" THEN <<"me">>
    ELSE IF fffactor \in {"SMB", "HML"} THEN <<"me", "bm">>
    ELSE IF fffactor = "RMW" THEN <<"me", "op">>
    ELSE <<"me", "inv">>

\* df2['sBool'] of a factor: the firms that enter its portfolios
FactorValid(r, fffactor, fidType) ==
    IF fffactor = "MKT-RF" THEN Gt0(r.me)
    ELSE IF fffactor = "SMB" THEN
        IF fidType = "ff3" THEN Gt0(r.me) /\ Gt0(r.be) /\ ~IsNull(r.bm)
        ELSE Gt0(r.me) /\ Gt0(r.be) /\ ~IsNull(r.bm)
             /\ ~IsNull(r.revt) /\ ~r.xp_allnan /\ ~IsNull(r.inv)
    ELSE IF fffactor = "HML" THEN Gt0(r.me) /\ Gt0(r.be) /\ ~IsNull(r.bm)
    ELSE IF fffactor = "RMW" THEN
        Gt0(r.me) /\ Gt0(r.be) /\ ~IsNull(r.bm) /\ ~IsNull(r.revt) /\ ~r.xp_allnan
    ELSE Gt0(r.me) /\ ~IsNull(r.inv)

\* one call _getNyseThresholds(dfccm_june, dfcrsp3, fffactor, True, freq, [2, 3], fidType)
FactorSort(p, fffactor, fidType) ==
    [fffactor |-> fffactor, fidType |-> fidType, dim |-> <<2, 3>>,
     ffcharac_list |-> FactorCharacList(fffactor),
     firms |-> {f \in Firms : FactorValid(p[f], fffactor, fidType)}]

FidType(idList) == IF Range(idList) \cap {"CMA", "RMW"} # {} THEN "ff5" ELSE "ff3"

\* variant: every factor of the list is sorted by a call of its own
FactorSortCallsEach(p, idList) ==
    {FactorSort(p, k, FidType(idList)) : k \in Range(idList)}

\* the calls of _getNyseThresholds a factor request makes
FactorSortCalls(p, idList) ==
    IF FidType(idList) = "ff3" /\ {"SMB", "HML"} \subseteq Range(idList)
    THEN {FactorSort(p, k, "ff3") : k \in Range(idList) \ {"HML"}}
    ELSE {FactorSort(p, k, FidType(idList)) : k \in Range(idList)}

\* dfportSort_tableList: the result each factor is derived from
FactorSortTableList(p, idList) ==
    LET keys == {IF k = "MKT-RF" THEN "MKT" ELSE k : k \in Range(idList)}
        name(k) == IF k = "MKT" THEN "MKT-RF" ELSE k
    IN  IF FidType(idList) = "ff3" /\ {"SMB", "HML"} \subseteq Range(idList)
        THEN [k \in keys |-> FactorSort(p, IF k = "HML" THEN "SMB" ELSE name(k), "ff3")]
        ELSE [k \in keys |-> FactorSort(p, name(k), FidType(idList))]

\* getFFfactors up to the tables the factors are computed from
CallGetFFfactors ==
    /\ args.fn = "getFFfactors"
    /\ result = NoValue
    /\ result' = [fn |-> "getFFfactors",
                  factorsId |-> args.factorsId,
                  calls |-> FactorSortCalls(panel, FactorsIdtemp(args.factorsId)),
                  tables |-> FactorSortTableList(panel, FactorsIdtemp(args.factorsId))]
    /\ UNCHANGED <<args, panel, sortCharacsId, sortResult, callerSet, nReq, lastReq,
                   runFactorReg, runEstimation, memoMergeCCM, memoMEJune,
                   memoFactorReg, dfcrsp3, dfccm_june, files>>

InitFactors ==
    /\ args \in {[fn |-> "getFFfactors", factorsId |-> l] : l \in FactorsIdLists}
    /\ result = NoValue
    /\ panel \in FactorPanels
    /\ sortCharacsId = <<"ME">>
    /\ sortResult = NoResult
    /\ runEstimation = FALSE
    /\ runFactorReg = TRUE
    /\ memoMergeCCM = {}
    /\ memoMEJune = {}
    /\ memoFactorReg = {}
    /\ dfcrsp3 = NoPanel
    /\ dfccm_june = NoJune
    /\ files = NoFiles
    /\ lastReq = NoReq
    /\ nReq = 0
    /\ callerSet = "never"

NextFactors == CallGetFFfactors

SpecFactors == InitFactors /\ [][NextFactors]_vars

\* both SMB and HML are among the factors of the request
SmbAndHmlRequested ==
    result.fn = "getFFfactors" /\ {"SMB", "HML"} \subseteq Range(result.factorsId)

\* the size and book-to-market 2x3 sorts the request computed
MeBmSorts == {c \in result.calls : c.ffcharac_list = <<"me", "bm">>}

\* C19 as stated: whenever SMB and HML are requested together, the size and
\* book-to-market 2x3 sort is computed exactly once and both factors are
\* derived from that one result.
C19_SharedSortComputedOnce ==
    SmbAndHmlRequested =>
        /\ Cardinality(MeBmSorts) = 1
        /\ result.tables["SMB"] = result.tables["HML"]
        /\ result.tables["SMB"] \in result.calls

\* C19 amended: when SMB and HML are requested together and neither RMW nor
\* CMA is requested, the size and book-to-market 2x3 sort is computed
\* exactly once and both factors are derived from that one result; when RMW
\* or CMA is requested as well, SMB and HML are each derived from a sort of
\* their own, SMB's over the firms that also have profitability and
\* investment.
C19_SharedSortOnceInThreeFactorRequests ==
    SmbAndHmlRequested =>
        IF Range(result.factorsId) \cap {"CMA", "RMW"} = {}
        THEN /\ Cardinality(MeBmSorts) = 1
             /\ result.tables["SMB"] = result.tables["HML"]
             /\ result.tables["SMB"] \in result.calls
        ELSE /\ Cardinality(MeBmSorts) = 2
             /\ result.tables["SMB"] = FactorSort(panel, "SMB", "ff5")
             /\ result.tables["HML"] = FactorSort(panel, "HML", "ff5")
             /\ {result.tables["SMB"], result.tables["HML"]} = MeBmSorts

\* a three-factor request: market, SMB and HML, on a panel where a firm has
\* book-to-market but lacks investment
C19_Witness ==
    /\ SmbAndHmlRequested
    /\ Range(result.factorsId) = {"MKT-RF", "SMB", "HML"}
    /\ \E f \in Firms : ~IsNull(panel[f].bm) /\ IsNull(panel[f].inv)

(***************************************************************************)
(* Annual observations of getPortfolioReturns.  A date is <<year, month>>; *)
(* the returns are monthly rows dated at the last trading day of a month   *)
(* and collapsed to calendar years.  dt_start is a trading day; dt_end may *)
(* be the last calendar day of its month and may fall on a non-trading day.*)
(***************************************************************************)
MaxSpan == 2

StartDates == {4, 5} \X (1..12)
EndDays == {"mid", "last"}
EndDates == [year : 4..(4 + MaxSpan), month : 1..12, day : EndDays]

MonthIndex(d) == 12 * d[1] + d[2]

\* dt_end - BDay(1) when dt_end is not a trading day
AdjustedEnd(dt_end, endTrades) ==
    [year |-> dt_end.year, month |-> dt_end.month,
     day |-> IF dt_end.day = "last"
             THEN (IF endTrades THEN "lastCalendar" ELSE "lastTrading")
             ELSE "mid"]

\* dt_start - relativedelta(years=3)
ThreeYearsBack(dt_start) == <<dt_start[1] - 3, dt_start[2]>>

\* the month-end rows of the CRSP panel between dt_start and dt_end
CrspMonths(dt_start, dt_end) ==
    {d \in ((dt_start[1])..(dt_end.year)) \X (1..12) :
        /\ MonthIndex(dt_start) <= MonthIndex(d)
        /\ \/ MonthIndex(d) < MonthIndex(<<dt_end.year, dt_end.month>>)
           \/ d = <<dt_end.year, dt_end.month>> /\ dt_end.day # "mid"}

\* dfcomp['count'] of the fiscal year y for a firm that reports every year
CompCount(y, dt_start) == y - dt_start[1]

\* the years t whose June formation has NYSE breakpoints: the fiscal year
\* t-1 is the third or a later one of the Compustat panel
FormationYears(dt_start, dt_end) ==
    {t \in ((dt_start[1] + 1)..(dt_end.year)) :
        /\ CompCount(t - 1, dt_start) >= 2
        /\ <<t, 6>> \in CrspMonths(dt_start, dt_end)}

\* ffyear: July of year t to June of year t+1 belong to the formation of t
Ffyear(d) == IF d[2] >= 7 THEN d[1] ELSE d[1] - 1

\* the months for which df5 holds portfolio returns
Df5Months(dt_start, dt_end) ==
    {d \in CrspMonths(dt_start, dt_end) : Ffyear(d) \in FormationYears(dt_start, dt_end)}

\* the months of the market portfolio: a lagged size is needed
MktMonths(dt_start, dt_end) ==
    {d \in CrspMonths(dt_start, dt_end) : MonthIndex(dt_start) < MonthIndex(d)}

\* date_crsp + YearEnd(0) <= dt_end
YearEndKept(y, dt_end) ==
    \/ y < dt_end.year
    \/ y = dt_end.year /\ dt_end.month = 12 /\ dt_end.day = "lastCalendar"

\* the collapse to the annual frequency: one observation per calendar year
\* kept, compounded over the months the year has rows for
AnnualCollapse(rows, dt_end) ==
    {[date |-> y, months |-> {d[2] : d \in {r \in rows : r[1] = y}}] :
        y \in {r[1] : r \in {q \in rows : YearEndKept(q[1], dt_end)}}}

\* getPortfolios(..., 'A', dt_start, dt_end) for the market or a sort
GetPortfoliosAnnual(factorsBool, dt_start, dt_end) ==
    AnnualCollapse(IF factorsBool THEN MktMonths(dt_start, dt_end)
                   ELSE Df5Months(dt_start, dt_end), dt_end)

\* getPortfolioReturns: build from three years before dt_start, then slice
\* from dt_start on
GetPortfolioReturnsAnnual(factorsBool, dt_start, dt_end, endTrades) ==
    {o \in GetPortfoliosAnnual(factorsBool, ThreeYearsBack(dt_start),
                               AdjustedEnd(dt_end, endTrades)) :
        o.date >= dt_start[1]}

CallGetPortfolioReturnsAnnual ==
    /\ args.fn = "getPortfolioReturns"
    /\ result = NoValue
    /\ result' = [fn |-> "getPortfolioReturns", freq |-> "A",
                  obs |-> GetPortfolioReturnsAnnual(args.factorsBool, args.dt_start,
                                                    args.dt_end, args.endTrades)]
    /\ UNCHANGED <<args, panel, sortCharacsId, sortResult, callerSet, nReq, lastReq,
                   runFactorReg, runEstimation, memoMergeCCM, memoMEJune,
                   memoFactorReg, dfcrsp3, dfccm_june, files>>

InitAnnual ==
    /\ args \in {a \in [fn : {"getPortfolioReturns"}, factorsBool : BOOLEAN,
                        dt_start : StartDates, dt_end : EndDates, endTrades : BOOLEAN] :
                    MonthIndex(a.dt_start) <= MonthIndex(<<a.dt_end.year, a.dt_end.month>>)}
    /\ result = NoValue
    /\ panel = IdlePanel
    /\ sortCharacsId = <<"ME">>
    /\ sortResult = NoResult
    /\ runEstimation = FALSE
    /\ runFactorReg = TRUE
    /\ memoMergeCCM = {}
    /\ memoMEJune = {}
    /\ memoFactorReg = {}
    /\ dfcrsp3 = NoPanel
    /\ dfccm_june = NoJune
    /\ files = NoFiles
    /\ lastReq = NoReq
    /\ nReq = 0
    /\ callerSet = "never"

NextAnnual == CallGetPortfolioReturnsAnnual

SpecAnnual == InitAnnual /\ [][NextAnnual]_vars

\* C20: for the annual frequency, a request that ends before the end of a
\* calendar year reports no observation for that final year, and every
\* reported annual observation covers all twelve months of its year.
C20_AnnualObservationsCoverFullYears ==
    result.fn = "getPortfolioReturns" /\ result.freq = "A" =>
        /\ ~(args.dt_end.month = 12 /\ args.dt_end.day = "last") =>
               \A o \in result.obs : o.date # args.dt_end.year
        /\ \A o \in result.obs : o.months = 1..12

(***************************************************************************)
(* getFFfactors from the tables of the sorts to the factor returns, for    *)
(* one date.  A table gives the return of each of the six buckets of a     *)
(* 2x3 sort, or NaN; an average is a fraction num / den, or null.          *)
(***************************************************************************)
MaxRet == 1

RetVals == {NaN} \cup (0..MaxRet)

\* the second characteristic of the sort of a factor
FactorFlist(f) ==
    IF f \in {"SMB", "HML"} THEN "bm" ELSE IF f = "RMW" THEN "op" ELSE "inv"

SmallCols(c) == {"me0-50_" \o c \o "70-100", "me0-50_" \o c \o "30-70", "me0-50_" \o c \o "0-30"}
BigCols(c) == {"me50-100_" \o c \o "70-100", "me50-100_" \o c \o "30-70", "me50-100_" \o c \o "0-30"}
HighCols(c) == {"me0-50_" \o c \o "70-100", "me50-100_" \o c \o "70-100"}
LowCols(c) == {"me0-50_" \o c \o "0-30", "me50-100_" \o c \o "0-30"}
SortCols(c) == SmallCols(c) \cup BigCols(c)

SortTables(c) == [SortCols(c) -> RetVals]
\* tables with the same return in every bucket
FlatTables(c) == {[k \in SortCols(c) |-> v] : v \in RetVals}

NullAvg == [null |-> TRUE, num |-> 0, den |-> 1]

\* df.sum(axis=1, min_count=len(df.columns)) / len(df.columns)
portRetAvg(t, cols) ==
    IF \E k \in cols : IsNull(t[k]) THEN NullAvg
    ELSE [null |-> FALSE, num |-> SumOver(cols, t), den |-> Cardinality(cols)]

\* the difference of two averages over the same number of columns
AvgMinus(a, b) ==
    IF a.null \/ b.null THEN NullAvg
    ELSE [null |-> FALSE, num |-> a.num - b.num, den |-> a.den]

\* portRetAvg over the three columns SMB_bm, SMB_op, SMB_inv
AvgOfThree(a, b, c) ==
    IF a.null \/ b.null \/ c.null THEN NullAvg
    ELSE [null |-> FALSE, num |-> a.num + b.num + c.num, den |-> 3 * a.den]

\* small minus big on the sort of a table
SmallMinusBig(t, c) == AvgMinus(portRetAvg(t, SmallCols(c)), portRetAvg(t, BigCols(c)))

\* variant: every factor is low minus high
LowMinusHighFactorAll(f) == TRUE

\* the factors computed as low minus high
LowMinusHighFactor(f) == f \in {"CMA", "ST_Rev", "LT_Rev"}

\* the long-short return of a factor other than SMB
LongShort(t, f) ==
    IF LowMinusHighFactor(f)
    THEN AvgMinus(portRetAvg(t, LowCols(FactorFlist(f))), portRetAvg(t, HighCols(FactorFlist(f))))
    ELSE AvgMinus(portRetAvg(t, HighCols(FactorFlist(f))), portRetAvg(t, LowCols(FactorFlist(f))))

\* ffFactorsTable: the columns smb_bm (before it is dropped), smb, hml, rmw, cma
FfFactorsTable(factorsId, tl) ==
    LET ids == Range(factorsId)
        three == ids \cap {"CMA", "RMW"} = {}
        smb_bm == SmallMinusBig(tl["SMB"], "bm")
    IN  [f \in (ids \ {"MKT-RF"}) \cup (IF "SMB" \in ids THEN {"SMB_bm"} ELSE {}) |->
            IF f = "SMB_bm" THEN smb_bm
            ELSE IF f = "SMB" THEN
                IF three THEN smb_bm
                ELSE AvgOfThree(smb_bm, SmallMinusBig(tl["RMW"], "op"),
                                SmallMinusBig(tl["CMA"], "inv"))
            ELSE LongShort(tl[f], f)]

\* the requests of the composition: three-factor and five-factor models
ComposeRequests ==
    {<<"SMB", "HML">>, <<"MKT-RF", "SMB", "HML">>, <<"HML">>,
     <<"MKT-RF", "SMB", "HML", "RMW", "CMA">>}

\* dfportSort_tableList of a request: in a three-factor request HML shares
\* the table of SMB
ComposeInputs ==
    {[fn |-> "ffFactorsTable", factorsId |-> l,
      tables |-> [SMB |-> t, HML |-> t, RMW |-> u, CMA |-> u2]] :
        l \in {r \in ComposeRequests : Range(r) \cap {"CMA", "RMW"} = {}},
        t \in SortTables("bm"), u \in {CHOOSE x \in FlatTables("op") : TRUE},
        u2 \in {CHOOSE x \in FlatTables("inv") : TRUE}}
    \cup
    {[fn |-> "ffFactorsTable", factorsId |-> l,
      tables |-> [SMB |-> t, HML |-> h, RMW |-> u, CMA |-> u2]] :
        l \in {r \in ComposeRequests : Range(r) \cap {"CMA", "RMW"} # {}},
        t \in SortTables("bm"),
        <<h, u, u2>> \in {<<[k \in SortCols("bm") |-> v], [k \in SortCols("op") |-> v],
                            [k \in SortCols("inv") |-> v]>> : v \in RetVals}}

CallFfFactorsTable ==
    /\ args.fn = "ffFactorsTable"
    /\ result = NoValue
    /\ result' = [fn |-> "ffFactorsTable",
                  table |-> FfFactorsTable(args.factorsId, args.tables)]
    /\ UNCHANGED <<args, panel, sortCharacsId, sortResult, callerSet, nReq, lastReq,
                   runFactorReg, runEstimation, memoMergeCCM, memoMEJune,
                   memoFactorReg, dfcrsp3, dfccm_june, files>>

InitCompose ==
    /\ args \in ComposeInputs
    /\ result = NoValue
    /\ panel = IdlePanel
    /\ sortCharacsId = <<"ME">>
    /\ sortResult = NoResult
    /\ runEstimation = FALSE
    /\ runFactorReg = TRUE
    /\ memoMergeCCM = {}
    /\ memoMEJune = {}
    /\ memoFactorReg = {}
    /\ dfcrsp3 = NoPanel
    /\ dfccm_june = NoJune
    /\ files = NoFiles
    /\ lastReq = NoReq
    /\ nReq = 0
    /\ callerSet = "never"

NextCompose == CallFfFactorsTable

SpecCompose == InitCompose /\ [][NextCompose]_vars

\* C21: on the 2x3 size and book-to-market sort, three times SMB is the sum
\* of the three small buckets minus the sum of the three big ones, and twice
\* HML is the sum of the two high book-to-market buckets minus the sum of
\* the two low ones, whenever the buckets involved have returns.
C21_SmbAndHmlFormulas ==
    result.fn = "ffFactorsTable" =>
        LET s == args.tables["SMB"]
            h == args.tables["HML"]
            tb == result.table
        IN  /\ "SMB" \in Range(args.factorsId) /\ (\A k \in SortCols("bm") : ~IsNull(s[k])) =>
                /\ ~tb["SMB_bm"].null
                /\ tb["SMB_bm"].den = 3
                /\ tb["SMB_bm"].num =
                      (s["me0-50_bm0-30"] + s["me0-50_bm30-70"] + s["me0-50_bm70-100"])
                      - (s["me50-100_bm0-30"] + s["me50-100_bm30-70"] + s["me50-100_bm70-100"])
                /\ Range(args.factorsId) \cap {"CMA", "RMW"} = {} => tb["SMB"] = tb["SMB_bm"]
            /\ "HML" \in Range(args.factorsId)
               /\ (\A k \in HighCols("bm") \cup LowCols("bm") : ~IsNull(h[k])) =>
                /\ ~tb["HML"].null
                /\ tb["HML"].den = 2
                /\ tb["HML"].num =
                      (h["me0-50_bm70-100"] + h["me50-100_bm70-100"])
                      - (h["me0-50_bm0-30"] + h["me50-100_bm0-30"])

\* a three-factor request on a table where small beats big and high
\* book-to-market beats low
C21_Witness ==
    /\ result.fn = "ffFactorsTable"
    /\ Range(args.factorsId) = {"MKT-RF", "SMB", "HML"}
    /\ result.table["SMB"].num > 0
    /\ result.table["HML"].num > 0
    /\ ~result.table["HML"].null /\ ~result.table["SMB"].null

\* C22: a request changes no shared state other than the run-control
\* flags: the panels the engine holds as attributes are the same after the
\* request as before it.
C22_RequestsLeaveSharedStateUnchanged ==
    [][nReq' = nReq + 1 => dfcrsp3' = dfcrsp3 /\ dfccm_june' = dfccm_june]_vars

(***************************************************************************)
(* The panels kept in local files by queryCrsp and getCrspDailyRollVar.    *)
(* A row is <<permno, date, value>>; the value stands for the columns the  *)
(* database returns for the key, and the database may have been revised    *)
(* between two queries.  result holds the two files; args.runQuery is the  *)
(* force-requery flag of the instance.                                     *)
(***************************************************************************)
MaxDate == 4

FileDates == 1..MaxDate
Revisions == {1, 2}
NoFile == {}

\* wrdsConn.raw_sql: a.date BETWEEN start AND end, as the database stands
RawSql(s, e, v) == {<<1, d, v>> : d \in {x \in FileDates : s <= x /\ x <= e}}

KeysOf(rows) == {<<r[1], r[2]>> : r \in rows}
DateMin(rows) == CHOOSE d \in {r[2] : r \in rows} : \A r \in rows : d <= r[2]
DateMax(rows) == CHOOSE d \in {r[2] : r \in rows} : \A r \in rows : r[2] <= d

\* drop_duplicates(keep='first') without a subset: only rows equal in every
\* column are duplicates, which a set of rows has none of
DropDuplicateRows(first, second) == first \cup second

\* sort by permno, date, id and drop_duplicates(subset=['permno', 'date']):
\* of two rows with one key the row of the preferred frame stays
DropDuplicateKeys(preferred, other) ==
    preferred \cup {r \in other : <<r[1], r[2]>> \notin KeysOf(preferred)}

\* queryCrsp: the frame left in the file after the rows before date_min
\* have been queried
CrspPre(file, s, e, v) ==
    IF s < DateMin(file)
    THEN DropDuplicateRows(RawSql(s, DateMin(file), v), {r \in file : r[2] <= e})
    ELSE file

\* queryCrsp: the frame left in the file after the rows after date_max have
\* been queried; date_max is the one of the file as loaded
CrspPost(file, loaded, s, e, v) ==
    IF DateMax(loaded) < e
    THEN DropDuplicateRows({r \in file : s <= r[2]}, RawSql(DateMax(loaded), e, v))
    ELSE file

\* the file of queryCrsp after a call
QueryCrspFile(file, runQuery, s, e, v) ==
    IF runQuery = FALSE /\ file # NoFile
    THEN CrspPost(CrspPre(file, s, e, v), file, s, e, v)
    ELSE RawSql(s, e, v)

\* getCrspDailyRollVar, rows before date_min: id 0 for the queried rows,
\* id 1 for the stored ones, keep='first'
RollVarPre(file, s, e, v) ==
    IF s < DateMin(file)
    THEN DropDuplicateKeys(RawSql(s, DateMin(file) + Roll, v), {r \in file : r[2] <= e})
    ELSE file

\* getCrspDailyRollVar, rows after date_max: keep='last'
RollVarPost(file, loaded, s, e, v) ==
    IF DateMax(loaded) < e
    THEN DropDuplicateKeys({r \in file : s <= r[2]}, RawSql(DateMax(loaded) - 2 * Roll, e, v))
    ELSE file

\* the file of getCrspDailyRollVar after a call
RollVarFile(file, runQuery, s, e, v) ==
    IF runQuery = FALSE /\ file # NoFile
    THEN RollVarPost(RollVarPre(file, s, e, v), file, s, e, v)
    ELSE RawSql(s, e, v)

\* which frame the surviving rows of the keys held twice came from
Survivors(file, runQuery, s, e, v) ==
    IF runQuery = FALSE /\ file # NoFile
    THEN (IF s < DateMin(file)
             /\ KeysOf(RawSql(s, DateMin(file) + Roll, v)) \cap KeysOf({r \in file : r[2] <= e}) # {}
          THEN {"queried"} ELSE {})
         \cup
         (IF DateMax(file) < e
             /\ KeysOf({r \in RollVarPre(file, s, e, v) : s <= r[2]})
                \cap KeysOf(RawSql(DateMax(file) - 2 * Roll, e, v)) # {}
          THEN {"stored"} ELSE {})
    ELSE {}

QueryCrsp(s, e, v) ==
    /\ args.fn = "localFiles"
    /\ result' = [result EXCEPT !.crsp = QueryCrspFile(result.crsp, args.runQuery, s, e, v),
                                !.last = "queryCrsp"]
    /\ UNCHANGED <<args, panel, sortCharacsId, sortResult, callerSet, nReq, lastReq,
                   runFactorReg, runEstimation, memoMergeCCM, memoMEJune,
                   memoFactorReg, dfcrsp3, dfccm_june, files>>

GetCrspDailyRollVar(s, e, v) ==
    /\ args.fn = "localFiles"
    /\ result' = [result EXCEPT !.rollvar = RollVarFile(result.rollvar, args.runQuery, s, e, v),
                                !.survivors = @ \cup Survivors(result.rollvar, args.runQuery, s, e, v),
                                !.last = "getCrspDailyRollVar"]
    /\ UNCHANGED <<args, panel, sortCharacsId, sortResult, callerSet, nReq, lastReq,
                   runFactorReg, runEstimation, memoMergeCCM, memoMEJune,
                   memoFactorReg, dfcrsp3, dfccm_june, files>>

InitFiles ==
    /\ args \in [fn : {"localFiles"}, runQuery : BOOLEAN]
    /\ result = [fn |-> "localFiles", crsp |-> NoFile, rollvar |-> NoFile,
                 survivors |-> {}, last |-> "none"]
    /\ panel = IdlePanel
    /\ sortCharacsId = <<"ME">>
    /\ sortResult = NoResult
    /\ runEstimation = FALSE
    /\ runFactorReg = TRUE
    /\ memoMergeCCM = {}
    /\ memoMEJune = {}
    /\ memoFactorReg = {}
    /\ dfcrsp3 = NoPanel
    /\ dfccm_june = NoJune
    /\ files = NoFiles
    /\ lastReq = NoReq
    /\ nReq = 0
    /\ callerSet = "never"

NextFiles ==
    \E s \in FileDates, e \in FileDates, v \in Revisions :
        /\ s <= e
        /\ \/ QueryCrsp(s, e, v)
           \/ GetCrspDailyRollVar(s, e, v)

SpecFiles == InitFiles /\ [][NextFiles]_vars

\* C23: with the reuse of local files enabled, a query never removes a key
\* from a local file: every (permno, date) stored before it is stored after.
C23_LocalFilesNeverShrink ==
    [][args.fn = "localFiles" /\ args.runQuery = FALSE =>
          /\ KeysOf(result.crsp) \subseteq KeysOf(result'.crsp)
          /\ KeysOf(result.rollvar) \subseteq KeysOf(result'.rollvar)]_vars

\* C24: a local file holds one row per (permno, date), and the rows that
\* survived a merge always came from the same side, the stored or the
\* queried rows.
C24_OneRowPerKeyByFixedPriority ==
    result.fn = "localFiles" /\ args.runQuery = FALSE =>
        /\ \A r1, r2 \in result.crsp : r1[1] = r2[1] /\ r1[2] = r2[2] => r1 = r2
        /\ \A r1, r2 \in result.rollvar : r1[1] = r2[1] /\ r1[2] = r2[2] => r1 = r2
        /\ Cardinality(result.survivors) <= 1

\* C25: the lagged characteristic getMEJune attaches is the same whether
\* the estimates are loaded from the local file or estimated anew because
\* the force-reestimate flag is set.
C25_ReloadEqualsRecompute ==
    result.fn = "getMEJune" =>
        result.dfcrsp2 = LaggedCharac(args.charac, args.first, args.eom, TRUE,
                                      files[<<"resvar", "monthly">>] # None)

(***************************************************************************)
(* The list of factors getNyseThresholdsAndRet is called with: idList is   *)
(* the caller's list object (self.factorsIdtemp), changed in place.  A     *)
(* name _getNyseThresholds does not know makes it raise ValueError.        *)
(***************************************************************************)
UnknownFactor == "XYZ"

\* the lists of distinct names a caller can pass
CallerIdLists ==
    {s \in UNION {[1..n -> FactorNames \cup {UnknownFactor}] : n \in 1..Cardinality(FactorNames)} :
        \A i, j \in DOMAIN s : i # j => s[i] # s[j]}

\* list.remove(x): the list without the first x
ListRemove(l, x) ==
    LET i == CHOOSE k \in DOMAIN l : l[k] = x /\ \A j \in 1..(k - 1) : l[j] # x
    IN  SubSeq(l, 1, i - 1) \o SubSeq(l, i + 1, Len(l))

\* list.append(x)
ListAppend(l, x) == l \o <<x>>

\* the sorts of the names of l: 'Unknown factor.' is raised for a name that
\* is no factor
SortsRaise(l) == UnknownFactor \in Range(l)

\* the factor branch: the outcome and the caller's list when control leaves
\* getNyseThresholdsAndRet
FactorBranch(idList) ==
    IF FidType(idList) = "ff3" /\ {"SMB", "HML"} \subseteq Range(idList)
    THEN IF SortsRaise(ListRemove(idList, "HML"))
         THEN [status |-> "ValueError", idList |-> ListRemove(idList, "HML")]
         ELSE [status |-> "ok", idList |-> ListAppend(ListRemove(idList, "HML"), "HML")]
    ELSE [status |-> IF SortsRaise(idList) THEN "ValueError" ELSE "ok", idList |-> idList]

CallGetNyseThresholdsAndRet ==
    /\ args.fn = "getNyseThresholdsAndRet"
    /\ result = NoValue
    /\ result' = [fn |-> "getNyseThresholdsAndRet"] @@ FactorBranch(args.idList)
    /\ UNCHANGED <<args, panel, sortCharacsId, sortResult, callerSet, nReq, lastReq,
                   runFactorReg, runEstimation, memoMergeCCM, memoMEJune,
                   memoFactorReg, dfcrsp3, dfccm_june, files>>

InitIdList ==
    /\ args \in [fn : {"getNyseThresholdsAndRet"}, idList : CallerIdLists]
    /\ result = NoValue
    /\ panel = IdlePanel
    /\ sortCharacsId = <<"ME">>
    /\ sortResult = NoResult
    /\ runEstimation = FALSE
    /\ runFactorReg = TRUE
    /\ memoMergeCCM = {}
    /\ memoMEJune = {}
    /\ memoFactorReg = {}
    /\ dfcrsp3 = NoPanel
    /\ dfccm_june = NoJune
    /\ files = NoFiles
    /\ lastReq = NoReq
    /\ nReq = 0
    /\ callerSet = "never"

NextIdList == CallGetNyseThresholdsAndRet

SpecIdList == InitIdList /\ [][NextIdList]_vars

\* C26: when getNyseThresholdsAndRet returns or raises, the caller's list
\* of factors holds the same names in the same order as at the call.
C26_CallerListUnchanged ==
    result.fn = "getNyseThresholdsAndRet" => result.idList = args.idList

(***************************************************************************)
(* getPortfolios with factorsBool = True: the tables of the six portfolios *)
(* behind each factor, with the columns renamed.  A column 'me0-50_bm0-30' *)
(* is the record [me |-> "0-50", charac |-> "bm", range |-> "0-30"]; a     *)
(* label 'SMALL LOBM' is [size |-> "SMALL", level |-> "LO", charac |->     *)
(* "BM"], and 'ME1 BM2' is [size |-> "ME1", level |-> "2", charac |-> "BM"].*)
(***************************************************************************)
MaxFactors == 3

AllFactorNames == {"MKT-RF", "SMB", "HML", "RMW", "CMA", "MOM", "ST_Rev", "LT_Rev"}

\* the lists of distinct factors of an instance, up to MaxFactors names
PortFactorsIdLists ==
    {s \in UNION {[1..n -> AllFactorNames] : n \in 1..MaxFactors} :
        \A i, j \in DOMAIN s : i # j => s[i] # s[j]}

\* flist[1]: the second characteristic of the sort of a factor
PortFlist(f) ==
    IF f \in {"SMB", "HML"} THEN "bm"
    ELSE IF f = "RMW" THEN "op"
    ELSE IF f = "CMA" THEN "inv"
    ELSE IF f = "MOM" THEN "prior_2_12"
    ELSE IF f = "ST_Rev" THEN "prior_1_1"
    ELSE "prior_13_60"

\* str.upper on the names of the characteristics
Upper(c) ==
    IF c = "bm" THEN "BM" ELSE IF c = "op" THEN "OP" ELSE IF c = "inv" THEN "INV"
    ELSE IF c = "prior_2_12" THEN "PRIOR_2_12"
    ELSE IF c = "prior_1_1" THEN "PRIOR_1_1" ELSE "PRIOR_13_60"

\* the columns of the table of a 2x3 sort on size and c
PortCols(c) ==
    [me : {"0-50", "50-100"}, charac : {c}, range : {"0-30", "30-70", "70-100"}]

SizeLabel(me, level) ==
    IF level = "2" THEN (IF me = "0-50" THEN "ME1" ELSE "ME2")
    ELSE (IF me = "0-50" THEN "SMALL" ELSE "BIG")

\* cols_dict of the SMB and HML tables
BmColsDict ==
    [k \in PortCols("bm") |->
        LET level == IF k.range = "70-100" THEN "LO"
                     ELSE IF k.range = "30-70" THEN "2" ELSE "HI"
        IN  [size |-> SizeLabel(k.me, level), level |-> level, charac |-> "BM"]]

\* cols_dict of the loop over RMW, CMA, MOM, ST_Rev, LT_Rev: both branches
\* name the bucket 0-30 LO and the bucket 70-100 HI
LoopColsDict(f) ==
    [k \in PortCols(PortFlist(f)) |->
        LET level == IF k.range = "0-30" THEN "LO"
                     ELSE IF k.range = "30-70" THEN "2" ELSE "HI"
        IN  [size |-> SizeLabel(k.me, level), level |-> level, charac |-> Upper(PortFlist(f))]]

NanLabel == [size |-> "nan", level |-> "nan", charac |-> "nan"]

\* rename(columns=cols_dict, level=1), then reorder_columns: a column the
\* dictionary does not name keeps its name, which is none of the categories
\* of cols_order
RenamedTable(source, cols, dict) ==
    [source |-> source,
     columns |-> {<<IF k \in DOMAIN dict THEN dict[k] ELSE NanLabel, k>> : k \in cols}]

\* the keys of dfportSort_tableList
TableListKeys(idList) == {IF k = "MKT-RF" THEN "MKT" ELSE k : k \in Range(idList)}

\* self.factorsIdtemp at the call of getNyseThresholdsAndRet
PortFactorsIdtemp(factorsId, rfr) ==
    IF rfr = FALSE THEN FactorsIdtemp(factorsId) ELSE factorsId

\* one pass of the loop over RMW, CMA, MOM, ST_Rev, LT_Rev
PortLoopStep(st, f, factorsId, keys) ==
    IF st.status # "ok" \/ f \notin Range(factorsId) THEN st
    ELSE IF f \in {"CMA", "ST_Rev", "LT_Rev"}
    THEN IF "CMA" \notin keys THEN [st EXCEPT !.status = "KeyError"]
         ELSE [st EXCEPT !.portTable =
                  [k \in DOMAIN st.portTable \cup {"CMA"} |->
                      IF k = "CMA" THEN RenamedTable("CMA", PortCols("inv"), LoopColsDict(f))
                      ELSE st.portTable[k]]]
    ELSE [st EXCEPT !.portTable =
             [k \in DOMAIN st.portTable \cup {f} |->
                 IF k = f THEN RenamedTable(f, PortCols(PortFlist(f)), LoopColsDict(f))
                 ELSE st.portTable[k]]]

\* portTable before the loop: the market, SMB and HML
PortTableHead(idtemp) ==
    [k \in TableListKeys(idtemp) \cap {"MKT", "SMB", "HML"} |->
        IF k = "MKT" THEN [source |-> "MKT", columns |-> {}]
        ELSE RenamedTable(k, PortCols("bm"), BmColsDict)]

\* getPortfolios(portLevel, True, ...) for portLevel 'Returns' or 'NumFirms'
PortTable(factorsId, rfr) ==
    LET idtemp == PortFactorsIdtemp(factorsId, rfr)
        keys == TableListKeys(idtemp)
        s0 == [status |-> "ok", portTable |-> PortTableHead(idtemp)]
        s1 == PortLoopStep(s0, "RMW", factorsId, keys)
        s2 == PortLoopStep(s1, "CMA", factorsId, keys)
        s3 == PortLoopStep(s2, "MOM", factorsId, keys)
        s4 == PortLoopStep(s3, "ST_Rev", factorsId, keys)
    IN  PortLoopStep(s4, "LT_Rev", factorsId, keys)

CallGetPortfoliosFactors ==
    /\ args.fn = "getPortfoliosFactors"
    /\ result = NoValue
    /\ result' = [fn |-> "getPortfoliosFactors"]
                 @@ (IF args.portLevel \in {"Returns", "NumFirms"}
                     THEN PortTable(args.factorsId, runFactorReg)
                     ELSE [status |-> "ValueError", portTable |-> <<>>])
    /\ UNCHANGED <<args, panel, sortCharacsId, sortResult, callerSet, nReq, lastReq,
                   runFactorReg, runEstimation, memoMergeCCM, memoMEJune,
                   memoFactorReg, dfcrsp3, dfccm_june, files>>

InitPortFactors ==
    /\ args \in [fn : {"getPortfoliosFactors"}, factorsId : PortFactorsIdLists,
                 portLevel : {"Returns", "NumFirms", "Characs"}]
    /\ result = NoValue
    /\ panel = IdlePanel
    /\ sortCharacsId = <<"ME">>
    /\ sortResult = NoResult
    /\ runEstimation = FALSE
    /\ runFactorReg \in BOOLEAN
    /\ memoMergeCCM = {}
    /\ memoMEJune = {}
    /\ memoFactorReg = {}
    /\ dfcrsp3 = NoPanel
    /\ dfccm_june = NoJune
    /\ files = NoFiles
    /\ lastReq = NoReq
    /\ nReq = 0
    /\ callerSet = "never"

NextPortFactors == CallGetPortfoliosFactors

SpecPortFactors == InitPortFactors /\ [][NextPortFactors]_vars

\* C27: for every requested factor among RMW, CMA, MOM, ST_Rev and LT_Rev
\* the tables returned hold an entry under the factor's name with the six
\* portfolios of the factor's own sort.
C27_EntryForEveryRequestedFactor ==
    result.fn = "getPortfoliosFactors" /\ args.portLevel \in {"Returns", "NumFirms"} =>
        \A f \in Range(args.factorsId) \cap {"RMW", "CMA", "MOM", "ST_Rev", "LT_Rev"} :
            /\ result.status = "ok"
            /\ f \in DOMAIN result.portTable
            /\ result.portTable[f].source = f
            /\ {c[2] : c \in result.portTable[f].columns} = PortCols(PortFlist(f))

\* C30: in every table returned, a column labelled HI holds the bucket
\* above the 70th percentile of the characteristic and a column labelled LO
\* the bucket up to the 30th percentile.
C30_HiAndLoLabels ==
    result.fn = "getPortfoliosFactors" /\ result.status = "ok" =>
        \A k \in DOMAIN result.portTable : \A c \in result.portTable[k].columns :
            /\ c[1].level = "HI" => c[2].range = "70-100"
            /\ c[1].level = "LO" => c[2].range = "0-30"

\* C28: for the annual frequency, a request that ends on the last calendar
\* day of a year reports an observation for that year, also when that day
\* is not a trading day.
C28_YearEndingRequestReportsLastYear ==
    result.fn = "getPortfolioReturns" /\ result.freq = "A"
    /\ args.dt_end.month = 12 /\ args.dt_end.day = "last" =>
        \E o \in result.obs : o.date = args.dt_end.year

(***************************************************************************)
(* The rolling regressions of getFactorRegResults: which securities of the *)
(* return panel are estimated.  The columns of the panel are the permnos,  *)
(* as strings, and 'date'.                                                 *)
(***************************************************************************)
MaxObs == 3

\* the names of the columns in the order Index.difference sorts them: the
\* digits of a permno come before the letters of 'date'
SortedNames == <<"10001", "10002", "10003", "date">>
RegPermnos == {"10001", "10002", "10003"}

\* dfy0.columns: dfxretTable.columns.difference(dfFactors.columns)
Dfy0Columns(present) ==
    SelectSeq(SortedNames, LAMBDA c : c \in present \cup {"date"})

\* dfy0.columns[1:][0:-1]
RegressionColumns(cols) ==
    LET rest == SubSeq(cols, 2, Len(cols))
    IN  SubSeq(rest, 1, Len(rest) - 1)

\* get_rolling_ols: a security with fewer than min_periods observations
\* gives an empty array and no frame
HasEstimates(obs, c, min_per) == obs[c] >= min_per

\* the securities of the frame returned; pd.concat raises when no security
\* gave a frame
RollingRegressions(present, obs, min_per) ==
    LET done == {c \in Range(RegressionColumns(Dfy0Columns(present))) :
                    HasEstimates(obs, c, min_per)}
    IN  IF done = {} THEN [status |-> "ValueError", permnos |-> {}]
        ELSE [status |-> "ok", permnos |-> done]

CallGetFactorRegResults ==
    /\ args.fn = "getFactorRegResults"
    /\ result = NoValue
    /\ result' = [fn |-> "getFactorRegResults"]
                 @@ RollingRegressions(args.present, args.obs, args.min_per)
    /\ UNCHANGED <<args, panel, sortCharacsId, sortResult, callerSet, nReq, lastReq,
                   runFactorReg, runEstimation, memoMergeCCM, memoMEJune,
                   memoFactorReg, dfcrsp3, dfccm_june, files>>

InitReg ==
    /\ args \in [fn : {"getFactorRegResults"}, boolRVar : BOOLEAN,
                 present : SUBSET RegPermnos, obs : [RegPermnos -> 0..MaxObs],
                 min_per : 1..2]
    /\ result = NoValue
    /\ panel = IdlePanel
    /\ sortCharacsId = <<"ME">>
    /\ sortResult = NoResult
    /\ runEstimation = FALSE
    /\ runFactorReg = TRUE
    /\ memoMergeCCM = {}
    /\ memoMEJune = {}
    /\ memoFactorReg = {}
    /\ dfcrsp3 = NoPanel
    /\ dfccm_june = NoJune
    /\ files = NoFiles
    /\ lastReq = NoReq
    /\ nReq = 0
    /\ callerSet = "never"

NextReg == CallGetFactorRegResults

SpecReg == InitReg /\ [][NextReg]_vars

\* C29: every security of the return panel with at least min_per
\* observations is among the securities the regressions return estimates for.
C29_EverySecurityIsEstimated ==
    result.fn = "getFactorRegResults" =>
        \A c \in args.present : args.obs[c] >= args.min_per => c \in result.permnos

====
